----------------------------- MODULE Handshake -----------------------------
(***************************************************************************)
(* The Noise handshake of l3SessionStart (tropic01/l3.go:31) term by term: *)
(* the hash chain of the transcript and the chain of keys that L3 takes as *)
(* one key.  SHA-256 and HMAC are tuples of what went in, so that two      *)
(* outputs are equal when all inputs are; the secret of two X25519 keys is *)
(* the set of the two.  A key stands for both of its halves.               *)
(*                                                                         *)
(* The chips are external.  A request may reach any chip, any number of    *)
(* times and with another pairing key index, and the driver may be given   *)
(* any keys and tags that chips have made, in any combination.             *)
(***************************************************************************)
EXTENDS Integers, Sequences

CONSTANTS
  Chips,        \* static keys of the chips
  HostKeys,     \* static keys of hosts
  Ephemeral,    \* ephemeral keys, a bound of the model
  PKeyIndices,  \* slots for pairing keys, 0..3
  Paired,       \* Paired[c][i]: the host key that chip c has in slot i
  protocolNameFixed

ASSUME HandshakeAssumption ==
  /\ Paired \in [Chips -> [PKeyIndices -> HostKeys]]
  /\ Ephemeral \intersect (Chips \union HostKeys) = {}

VARIABLES
  call,         \* the l3SessionStart that runs
  session,      \* Device.session
  used,         \* ephemeral keys generated
  requests,     \* history: the calls that sent HANDSHAKE
  answers,      \* history: what chips answered
  established,  \* history: the calls that returned nil, with the chip's key
  ended         \* history: how the last call that returned ended

vars == <<call, session, used, requests, answers, established, ended>>

NoCall == [pc |-> "idle"]
NoSession == [status |-> "sessionOff"]
Failed == [err |-> "failed"]

Init ==
  /\ call = NoCall
  /\ session = NoSession
  /\ used = {} /\ requests = {} /\ answers = {} /\ established = {}
  /\ ended = Failed

-----------------------------------------------------------------------------
\* Terms.

sha256Hash(h, data) == <<h, data>>
HMAC(key, data) == <<key, data>>
X25519(priv, pub) == {priv, pub}

\* An HKDF whose outputs are not told apart.
noiseHKDFOnce(ck, input) ==
  LET tmp == HMAC(ck, input)
      out == HMAC(tmp, <<1>>)
  IN  <<out, out>>

noiseHKDF(ck, input) ==
  LET tmp == HMAC(ck, input)
      out1 == HMAC(tmp, <<1>>)
  IN  <<out1, HMAC(tmp, <<out1, 2>>)>>

\* The first 32 bytes and a zero byte.
ck33(out) == <<out, 0>>

\* A transcript without the index of the pairing key.
TranscriptNoIndex(shPub, stpub, eh, pkeyIndex, et) ==
  sha256Hash(sha256Hash(sha256Hash(sha256Hash(protocolNameFixed, shPub), stpub), eh), et)

Transcript(shPub, stpub, eh, pkeyIndex, et) ==
  LET h0 == sha256Hash(protocolNameFixed, shPub)
      h1 == sha256Hash(h0, stpub)
      h2 == sha256Hash(h1, eh)
      h3 == sha256Hash(h2, pkeyIndex)
  IN  sha256Hash(h3, et)

Keys(es, se, es2) ==
  LET ck1 == noiseHKDF(protocolNameFixed, es)[1]
      ck2 == noiseHKDF(ck33(ck1), se)[1]
      last == noiseHKDF(ck33(ck2), es2)
      k == noiseHKDF(ck33(last[1]), <<>>)
  IN  [kauth |-> last[2], kcmd |-> k[1], kres |-> k[2]]

\* The keys as the host computes them from its call and the chip's key.
HostSchedule(c, et) == Keys(X25519(c.eh, et), X25519(c.shPriv, et), X25519(c.eh, c.stpub))

Tag(kauth, h) == [key |-> kauth, aad |-> h]

-----------------------------------------------------------------------------
\* The driver.

\* The session is dropped, an ephemeral key generated and HANDSHAKE sent.
Start(shPriv, shPub, stpub, pkeyIndex, eh) ==
  /\ call = NoCall /\ eh \notin used
  /\ session' = NoSession
  /\ call' = [pc |-> "sent", shPriv |-> shPriv, shPub |-> shPub, stpub |-> stpub,
              pkeyIndex |-> pkeyIndex, eh |-> eh]
  /\ used' = used \union {eh}
  /\ requests' = requests \union {[eh |-> eh, pkeyIndex |-> pkeyIndex]}
  /\ UNCHANGED <<answers, established, ended>>

\* A call that checks the host's key before it drops the session.
NotStartedKeepingSession ==
  /\ call = NoCall
  /\ ended' = Failed
  /\ UNCHANGED <<call, session, used, requests, answers, established>>

\* The host's key is refused, or there is no randomness.
NotStarted ==
  /\ call = NoCall
  /\ session' = NoSession
  /\ ended' = Failed
  /\ UNCHANGED <<call, used, requests, answers, established>>

\* A response with the chip's key and a tag that is authentic.
Accept(et, tag) ==
  /\ call # NoCall
  /\ LET k == HostSchedule(call, et)
     IN  /\ tag = Tag(k.kauth, Transcript(call.shPub, call.stpub, call.eh, call.pkeyIndex, et))
         /\ session' = [status |-> "sessionOn", eh |-> call.eh, kcmd |-> k.kcmd, kres |-> k.kres]
         /\ established' = established \union {[call |-> call, kcmd |-> k.kcmd, kres |-> k.kres]}
         /\ ended' = [err |-> "nil", eh |-> call.eh, kcmd |-> k.kcmd, kres |-> k.kres]
  /\ call' = NoCall
  /\ UNCHANGED <<used, requests, answers>>

\* No response, one of another length, a key that is none, or a wrong tag.
Refuse ==
  /\ call # NoCall
  /\ call' = NoCall
  /\ ended' = Failed
  /\ UNCHANGED <<session, used, requests, answers, established>>

-----------------------------------------------------------------------------
\* A chip that gets a HANDSHAKE generates its ephemeral key and answers with it
\* and a tag.

ChipSchedule(c, i, eh, et) == Keys(X25519(et, eh), X25519(et, Paired[c][i]), X25519(c, eh))

ChipAnswers(c, request, i, et) ==
  LET k == ChipSchedule(c, i, request.eh, et)
  IN  /\ request \in requests
      /\ et \notin used
      /\ used' = used \union {et}
      /\ answers' = answers \union
           {[chip |-> c, eh |-> request.eh, pkeyIndex |-> i, et |-> et,
             kcmd |-> k.kcmd, kres |-> k.kres,
             tag |-> Tag(k.kauth, Transcript(Paired[c][i], c, request.eh, i, et))]}
      /\ UNCHANGED <<call, session, requests, established, ended>>

Next ==
  \/ \E shPriv, shPub \in HostKeys, stpub \in Chips, i \in PKeyIndices, eh \in Ephemeral :
       Start(shPriv, shPub, stpub, i, eh)
  \/ NotStarted
  \/ \E a, b \in answers : Accept(a.et, b.tag)
  \/ Refuse
  \/ \E c \in Chips, request \in requests, i \in PKeyIndices, et \in Ephemeral :
       ChipAnswers(c, request, i, et)

Spec == Init /\ [][Next]_vars

-----------------------------------------------------------------------------

Calls ==
  [pc : {"sent"}, shPriv : HostKeys, shPub : HostKeys, stpub : Chips,
   pkeyIndex : PKeyIndices, eh : Ephemeral]

TypeOK ==
  /\ call \in {NoCall} \union Calls
  /\ used \subseteq Ephemeral
  /\ requests \subseteq [eh : used, pkeyIndex : PKeyIndices]
  /\ \A a \in answers :
       a.chip \in Chips /\ a.eh \in used /\ a.et \in used /\ a.pkeyIndex \in PKeyIndices
  /\ \A e \in established : e.call \in Calls
  /\ ended.err \in {"nil", "failed"}

\* A call returns nil only if the chip with the static key of the certificate
\* answered to this call's ephemeral key, for the slot that the call named, where
\* that chip has the very host key that the caller gave both halves of; and the
\* chip computed the same two session keys.
Agreement ==
  \A e \in established :
    \E a \in answers :
      /\ a.chip = e.call.stpub /\ a.eh = e.call.eh /\ a.pkeyIndex = e.call.pkeyIndex
      /\ Paired[a.chip][a.pkeyIndex] = e.call.shPub
      /\ e.call.shPub = e.call.shPriv
      /\ a.kcmd = e.kcmd /\ a.kres = e.kres

\* The two directions never share a key, and no two sessions, whatever the calls
\* and the chips, have a key in common: each may count its nonces from zero.
KeysAreOwn ==
  \A d, e \in established :
    /\ d.kcmd # e.kres
    /\ d.kcmd = e.kcmd \/ d.kres = e.kres => d = e

\* A session that is on is that of the call that returned last, with the keys
\* that this call derived, and no call runs: when a handshake fails, wherever it
\* fails, the keys of the handshake before are gone.
SessionIsOfLastCall ==
  session # NoSession =>
    /\ call = NoCall
    /\ ended.err = "nil"
    /\ <<session.eh, session.kcmd, session.kres>> = <<ended.eh, ended.kcmd, ended.kres>>
=============================================================================
