-------------------------- MODULE HandshakeProofs --------------------------
(***************************************************************************)
(* Agreement of the two ends of a handshake, for all sets of chips, hosts, *)
(* slots and ephemeral keys, and the counter of the nonces under the keys  *)
(* that it gives, for every radix.  The tag fixes the terms from which it  *)
(* was made; the rest is that ephemeral keys are not used twice.           *)
(***************************************************************************)
EXTENDS Handshake, IVCounter, TLAPS

-----------------------------------------------------------------------------
\* Terms are equal only if they were made of equal parts.

LEMMA Pairs ==
  ASSUME NEW a, NEW b, NEW c, NEW d, <<a, b>> = <<c, d>>
  PROVE  a = c /\ b = d
<1>1. <<a, b>>[1] = a /\ <<a, b>>[2] = b /\ <<c, d>>[1] = c /\ <<c, d>>[2] = d
  OBVIOUS
<1> QED
  BY <1>1

LEMMA FirstOutput ==
  ASSUME NEW ck, NEW in, NEW ck2, NEW in2,
         noiseHKDF(ck, in)[1] = noiseHKDF(ck2, in2)[1]
  PROVE  ck = ck2 /\ in = in2
<1> DEFINE tmp == HMAC(ck, in)
           tmp2 == HMAC(ck2, in2)
<1>1. noiseHKDF(ck, in)[1] = <<tmp, <<1>>>> /\ noiseHKDF(ck2, in2)[1] = <<tmp2, <<1>>>>
  BY DEF noiseHKDF, HMAC
<1>2. tmp = tmp2
  <2> HIDE DEF tmp, tmp2
  <2> QED
    BY <1>1, Pairs
<1> QED
  BY <1>2, Pairs DEF HMAC

LEMMA SecondOutput ==
  ASSUME NEW ck, NEW in, NEW ck2, NEW in2,
         noiseHKDF(ck, in)[2] = noiseHKDF(ck2, in2)[2]
  PROVE  ck = ck2 /\ in = in2
<1> DEFINE tmp == HMAC(ck, in)
           tmp2 == HMAC(ck2, in2)
           more == <<HMAC(tmp, <<1>>), 2>>
           more2 == <<HMAC(tmp2, <<1>>), 2>>
<1>1. noiseHKDF(ck, in)[2] = <<tmp, more>> /\ noiseHKDF(ck2, in2)[2] = <<tmp2, more2>>
  BY DEF noiseHKDF, HMAC
<1>2. tmp = tmp2
  <2> HIDE DEF tmp, tmp2, more, more2
  <2> QED
    BY <1>1, Pairs
<1> QED
  BY <1>2, Pairs DEF HMAC

LEMMA OutputsDiffer ==
  ASSUME NEW ck, NEW in, NEW ck2, NEW in2
  PROVE  noiseHKDF(ck, in)[1] # noiseHKDF(ck2, in2)[2]
<1> DEFINE tmp == HMAC(ck, in)
           tmp2 == HMAC(ck2, in2)
           out2 == HMAC(tmp2, <<1>>)
<1>1. noiseHKDF(ck, in)[1] = <<tmp, <<1>>>> /\ noiseHKDF(ck2, in2)[2] = <<tmp2, <<out2, 2>>>>
  BY DEF noiseHKDF, HMAC
<1>2. <<1>> # <<out2, 2>>
  <2> HIDE DEF out2
  <2>1. DOMAIN <<1>> = 1..1 /\ DOMAIN <<out2, 2>> = 1..2
    OBVIOUS
  <2>2. 2 \in 1..2 /\ 2 \notin 1..1
    OBVIOUS
  <2> QED
    BY <2>1, <2>2
<1> HIDE DEF tmp, tmp2, out2
<1> QED
  BY <1>1, <1>2, Pairs

LEMMA Padding ==
  ASSUME NEW a, NEW b, ck33(a) = ck33(b)
  PROVE  a = b
BY Pairs DEF ck33

LEMMA KeyParts ==
  ASSUME NEW a, NEW b, NEW c, NEW a2, NEW b2, NEW c2,
         \/ Keys(a, b, c).kauth = Keys(a2, b2, c2).kauth
         \/ Keys(a, b, c).kcmd = Keys(a2, b2, c2).kcmd
         \/ Keys(a, b, c).kres = Keys(a2, b2, c2).kres
  PROVE  a = a2 /\ b = b2 /\ c = c2
<1> DEFINE ck1 == noiseHKDF(protocolNameFixed, a)[1]
           ck2 == noiseHKDF(ck33(ck1), b)[1]
           last == noiseHKDF(ck33(ck2), c)
           k == noiseHKDF(ck33(last[1]), <<>>)
           dk1 == noiseHKDF(protocolNameFixed, a2)[1]
           dk2 == noiseHKDF(ck33(dk1), b2)[1]
           dast == noiseHKDF(ck33(dk2), c2)
           dk == noiseHKDF(ck33(dast[1]), <<>>)
<1>1. /\ Keys(a, b, c) = [kauth |-> last[2], kcmd |-> k[1], kres |-> k[2]]
      /\ Keys(a2, b2, c2) = [kauth |-> dast[2], kcmd |-> dk[1], kres |-> dk[2]]
  BY DEF Keys
<1>2. last[2] = dast[2] \/ k[1] = dk[1] \/ k[2] = dk[2]
  <2> HIDE DEF last, k, dast, dk
  <2> QED
    BY <1>1
<1>3. last[2] = dast[2] \/ last[1] = dast[1]
  <2> HIDE DEF last, dast
  <2>1. CASE k[1] = dk[1]
    <3>1. ck33(last[1]) = ck33(dast[1])
      BY <2>1, FirstOutput
    <3> QED
      BY <3>1, Padding
  <2>2. CASE k[2] = dk[2]
    <3>1. ck33(last[1]) = ck33(dast[1])
      BY <2>2, SecondOutput
    <3> QED
      BY <3>1, Padding
  <2> QED
    BY <1>2, <2>1, <2>2
<1>4. ck33(ck2) = ck33(dk2) /\ c = c2
  <2> HIDE DEF ck2, dk2
  <2> QED
    BY <1>3, FirstOutput, SecondOutput
<1>5. ck2 = dk2
  <2> HIDE DEF ck2, dk2
  <2> QED
    BY <1>4, Padding
<1>6. ck33(ck1) = ck33(dk1) /\ b = b2
  <2> HIDE DEF ck1, dk1
  <2> QED
    BY <1>5, FirstOutput
<1>7. ck1 = dk1
  <2> HIDE DEF ck1, dk1
  <2> QED
    BY <1>6, Padding
<1>8. a = a2
  BY <1>7, FirstOutput
<1> QED
  BY <1>4, <1>6, <1>8

LEMMA KeysDiffer ==
  ASSUME NEW a, NEW b, NEW c, NEW a2, NEW b2, NEW c2
  PROVE  Keys(a, b, c).kcmd # Keys(a2, b2, c2).kres
BY OutputsDiffer DEF Keys

LEMMA TranscriptParts ==
  ASSUME NEW a, NEW b, NEW c, NEW d, NEW e, NEW a2, NEW b2, NEW c2, NEW d2, NEW e2,
         Transcript(a, b, c, d, e) = Transcript(a2, b2, c2, d2, e2)
  PROVE  a = a2 /\ b = b2 /\ c = c2 /\ d = d2 /\ e = e2
<1> DEFINE h0 == <<protocolNameFixed, a>>
           h1 == <<h0, b>>
           h2 == <<h1, c>>
           h3 == <<h2, d>>
           g0 == <<protocolNameFixed, a2>>
           g1 == <<g0, b2>>
           g2 == <<g1, c2>>
           g3 == <<g2, d2>>
<1>1. <<h3, e>> = <<g3, e2>>
  BY DEF Transcript, sha256Hash
<1>2. h3 = g3 /\ e = e2
  <2> HIDE DEF h3, g3
  <2> QED
    BY <1>1, Pairs
<1>3. h2 = g2 /\ d = d2
  <2> HIDE DEF h2, g2
  <2> QED
    BY <1>2, Pairs DEF h3, g3
<1>4. h1 = g1 /\ c = c2
  <2> HIDE DEF h1, g1
  <2> QED
    BY <1>3, Pairs DEF h2, g2
<1>5. h0 = g0 /\ b = b2
  <2> HIDE DEF h0, g0
  <2> QED
    BY <1>4, Pairs DEF h1, g1
<1>6. a = a2
  BY <1>5, Pairs
<1> QED
  BY <1>2, <1>3, <1>4, <1>5, <1>6

\* A chip's tag fits a call's keys and transcript only if they agree on everything.
LEMMA TagAgrees ==
  ASSUME NEW c, NEW et, NEW chip, NEW i, NEW eh, NEW et2,
         Tag(HostSchedule(c, et).kauth, Transcript(c.shPub, c.stpub, c.eh, c.pkeyIndex, et))
           = Tag(ChipSchedule(chip, i, eh, et2).kauth, Transcript(Paired[chip][i], chip, eh, i, et2))
  PROVE  /\ chip = c.stpub /\ eh = c.eh /\ i = c.pkeyIndex /\ et2 = et
         /\ Paired[chip][i] = c.shPub /\ c.shPub = c.shPriv
         /\ HostSchedule(c, et) = ChipSchedule(chip, i, eh, et2)
<1> DEFINE hk == HostSchedule(c, et).kauth
           ck == ChipSchedule(chip, i, eh, et2).kauth
           ht == Transcript(c.shPub, c.stpub, c.eh, c.pkeyIndex, et)
           ct == Transcript(Paired[chip][i], chip, eh, i, et2)
<1>1. hk = ck /\ ht = ct
  <2>1. Tag(hk, ht) = Tag(ck, ct)
    OBVIOUS
  <2> HIDE DEF hk, ck, ht, ct
  <2> QED
    BY <2>1 DEF Tag
<1>2. Paired[chip][i] = c.shPub /\ chip = c.stpub /\ eh = c.eh /\ i = c.pkeyIndex /\ et2 = et
  <2> HIDE DEF hk, ck
  <2> QED
    BY <1>1, TranscriptParts
<1>3. /\ X25519(c.eh, et) = X25519(et2, eh)
      /\ X25519(c.shPriv, et) = X25519(et2, Paired[chip][i])
      /\ X25519(c.eh, c.stpub) = X25519(chip, eh)
  <2> HIDE DEF ht, ct
  <2> QED
    BY <1>1, KeyParts DEF HostSchedule, ChipSchedule
<1>4. c.shPriv = Paired[chip][i]
  BY <1>2, <1>3 DEF X25519
<1>5. HostSchedule(c, et) = ChipSchedule(chip, i, eh, et2)
  BY <1>3 DEF HostSchedule, ChipSchedule
<1> QED
  BY <1>2, <1>4, <1>5

-----------------------------------------------------------------------------
\* The inductive invariant.

\* A chip's answer is made of its own key and its slot.
AnswersFit ==
  \A a \in answers :
    LET k == ChipSchedule(a.chip, a.pkeyIndex, a.eh, a.et)
    IN  /\ a.kcmd = k.kcmd /\ a.kres = k.kres
        /\ a.tag = Tag(k.kauth, Transcript(Paired[a.chip][a.pkeyIndex], a.chip, a.eh, a.pkeyIndex, a.et))

\* The keys of a call are those of its schedule with the key of some chip.
EstablishedFit ==
  \A e \in established :
    /\ e.call.eh \in used
    /\ \E et : e.kcmd = HostSchedule(e.call, et).kcmd /\ e.kres = HostSchedule(e.call, et).kres

\* An ephemeral key is used by one call only.
OneEach ==
  /\ \A d, e \in established : d.call.eh = e.call.eh => d = e
  /\ call # NoCall => call.eh \in used /\ \A e \in established : e.call.eh # call.eh

HandshakeInv ==
  TypeOK /\ AnswersFit /\ EstablishedFit /\ OneEach /\ Agreement /\ SessionIsOfLastCall

LEMMA InvInit == Init => HandshakeInv
BY DEF Init, HandshakeInv, TypeOK, AnswersFit, EstablishedFit, OneEach, Agreement, SessionIsOfLastCall,
       NoCall, NoSession, Failed

LEMMA InvStart ==
  ASSUME HandshakeInv,
         NEW shPriv \in HostKeys, NEW shPub \in HostKeys, NEW stpub \in Chips,
         NEW i \in PKeyIndices, NEW eh \in Ephemeral,
         Start(shPriv, shPub, stpub, i, eh)
  PROVE  HandshakeInv'
<1> USE DEF HandshakeInv
<1>1. TypeOK'
  BY DEF TypeOK, Start, Calls
<1>2. AnswersFit'
  BY DEF AnswersFit, Start
<1>3. EstablishedFit'
  BY DEF EstablishedFit, Start
<1>4. OneEach'
  BY DEF OneEach, EstablishedFit, Start
<1>5. Agreement'
  BY DEF Agreement, Start
<1>6. SessionIsOfLastCall'
  BY DEF SessionIsOfLastCall, Start
<1> QED
  BY <1>1, <1>2, <1>3, <1>4, <1>5, <1>6

LEMMA InvNotStarted == HandshakeInv /\ (NotStarted \/ UNCHANGED vars) => HandshakeInv'
BY DEF HandshakeInv, NotStarted, Failed, vars, TypeOK, AnswersFit, EstablishedFit, OneEach, Agreement,
       SessionIsOfLastCall

\* The session is off when the call is refused: Start dropped it.
LEMMA InvRefuse == HandshakeInv /\ Refuse => HandshakeInv'
BY DEF HandshakeInv, Refuse, Failed, TypeOK, AnswersFit, EstablishedFit, OneEach, Agreement,
       SessionIsOfLastCall

LEMMA InvAccept ==
  ASSUME HandshakeInv, NEW a \in answers, NEW b \in answers, Accept(a.et, b.tag)
  PROVE  HandshakeInv'
<1> USE DEF HandshakeInv
<1> DEFINE k == HostSchedule(call, a.et)
           new == [call |-> call, kcmd |-> k.kcmd, kres |-> k.kres]
<1>1. /\ b.tag = Tag(k.kauth, Transcript(call.shPub, call.stpub, call.eh, call.pkeyIndex, a.et))
      /\ established' = established \union {new}
      /\ session' = [status |-> "sessionOn", eh |-> call.eh, kcmd |-> k.kcmd, kres |-> k.kres]
      /\ ended' = [err |-> "nil", eh |-> call.eh, kcmd |-> k.kcmd, kres |-> k.kres]
      /\ call # NoCall /\ call' = NoCall
      /\ UNCHANGED <<used, requests, answers>>
  BY DEF Accept
<1>2. call \in Calls
  BY <1>1 DEF TypeOK
<1>3. TypeOK'
  <2> HIDE DEF k
  <2> QED
    BY <1>1, <1>2 DEF TypeOK
<1>4. AnswersFit'
  BY <1>1 DEF AnswersFit
<1>5. EstablishedFit'
  <2>1. ASSUME NEW e \in established'
        PROVE  e.call.eh \in used /\ \E et : e.kcmd = HostSchedule(e.call, et).kcmd /\ e.kres = HostSchedule(e.call, et).kres
    <3>1. CASE e \in established
      BY <3>1 DEF EstablishedFit
    <3>2. CASE e = new
      <4>1. e.call = call /\ e.kcmd = HostSchedule(call, a.et).kcmd /\ e.kres = HostSchedule(call, a.et).kres
        BY <3>2
      <4> QED
        BY <4>1, <1>1 DEF OneEach
    <3> QED
      BY <1>1, <3>1, <3>2
  <2> QED
    BY <1>1, <2>1 DEF EstablishedFit
<1>6. OneEach'
  <2> HIDE DEF k
  <2> QED
    BY <1>1 DEF OneEach
<1>7. Agreement'
  <2>1. /\ b.chip = call.stpub /\ b.eh = call.eh /\ b.pkeyIndex = call.pkeyIndex
        /\ Paired[b.chip][b.pkeyIndex] = call.shPub /\ call.shPub = call.shPriv
        /\ k = ChipSchedule(b.chip, b.pkeyIndex, b.eh, b.et)
    BY <1>1, TagAgrees DEF AnswersFit
  <2>2. b.kcmd = k.kcmd /\ b.kres = k.kres
    BY <2>1 DEF AnswersFit
  <2> HIDE DEF k
  <2> QED
    BY <1>1, <2>1, <2>2 DEF Agreement
<1>8. SessionIsOfLastCall'
  <2> HIDE DEF k
  <2>1. session'.eh = call.eh /\ session'.kcmd = k.kcmd /\ session'.kres = k.kres
    BY <1>1
  <2>2. ended'.err = "nil" /\ ended'.eh = call.eh /\ ended'.kcmd = k.kcmd /\ ended'.kres = k.kres
    BY <1>1
  <2> QED
    BY <1>1, <2>1, <2>2 DEF SessionIsOfLastCall
<1> QED
  BY <1>3, <1>4, <1>5, <1>6, <1>7, <1>8

LEMMA InvChipAnswers ==
  ASSUME HandshakeInv,
         NEW c \in Chips, NEW request \in requests, NEW i \in PKeyIndices, NEW et \in Ephemeral,
         ChipAnswers(c, request, i, et)
  PROVE  HandshakeInv'
<1> USE DEF HandshakeInv
<1> DEFINE k == ChipSchedule(c, i, request.eh, et)
           tag == Tag(k.kauth, Transcript(Paired[c][i], c, request.eh, i, et))
           new == [chip |-> c, eh |-> request.eh, pkeyIndex |-> i, et |-> et,
                   kcmd |-> k.kcmd, kres |-> k.kres, tag |-> tag]
<1>1. /\ answers' = answers \union {new}
      /\ used' = used \union {et}
      /\ UNCHANGED <<call, session, requests, established, ended>>
  BY DEF ChipAnswers
<1>2. /\ new.chip = c /\ new.eh = request.eh /\ new.pkeyIndex = i /\ new.et = et
      /\ new.kcmd = k.kcmd /\ new.kres = k.kres /\ new.tag = tag
  OBVIOUS
<1>3. TypeOK'
  <2> HIDE DEF new
  <2> QED
    BY <1>1, <1>2 DEF TypeOK
<1>4. AnswersFit'
  <2>1. ASSUME NEW a \in answers'
        PROVE  LET q == ChipSchedule(a.chip, a.pkeyIndex, a.eh, a.et)
               IN  /\ a.kcmd = q.kcmd /\ a.kres = q.kres
                   /\ a.tag = Tag(q.kauth, Transcript(Paired[a.chip][a.pkeyIndex], a.chip, a.eh, a.pkeyIndex, a.et))
    <3>1. CASE a \in answers
      BY <3>1 DEF AnswersFit
    <3>2. CASE a = new
      <4> HIDE DEF new
      <4> QED
        BY <3>2, <1>2
    <3> QED
      BY <1>1, <3>1, <3>2
  <2> QED
    BY <2>1 DEF AnswersFit
<1>5. EstablishedFit'
  BY <1>1 DEF EstablishedFit
<1>6. OneEach'
  BY <1>1 DEF OneEach
<1>7. Agreement'
  <2> HIDE DEF new
  <2> QED
    BY <1>1 DEF Agreement
<1>8. SessionIsOfLastCall'
  BY <1>1 DEF SessionIsOfLastCall
<1> QED
  BY <1>3, <1>4, <1>5, <1>6, <1>7, <1>8

LEMMA Inductive == Spec => []HandshakeInv
<1>1. Init => HandshakeInv
  BY InvInit
<1>2. HandshakeInv /\ [Next]_vars => HandshakeInv'
  BY InvStart, InvNotStarted, InvAccept, InvRefuse, InvChipAnswers DEF Next
<1> QED
  BY <1>1, <1>2, PTL DEF Spec

-----------------------------------------------------------------------------

\* The running call, the keys in use, the requests and the answers keep their types.
THEOREM Typing == Spec => []TypeOK
<1>1. HandshakeInv => TypeOK
  BY DEF HandshakeInv
<1> QED
  BY <1>1, Inductive, PTL

\* A call of l3SessionStart returns nil only in agreement with the chip of the
\* certificate on slot, host key, ephemeral keys and session keys, for any chips,
\* slots and hosts, whatever the line delivers.
THEOREM BothAgree == Spec => []Agreement
<1>1. HandshakeInv => Agreement
  BY DEF HandshakeInv
<1> QED
  BY <1>1, Inductive, PTL

\* A session that is on is that of the call of l3SessionStart that returned last,
\* with the keys it derived; after a call that failed there is none.
THEOREM LastCall == Spec => []SessionIsOfLastCall
<1>1. HandshakeInv => SessionIsOfLastCall
  BY DEF HandshakeInv
<1> QED
  BY <1>1, Inductive, PTL

\* No key is shared by two sessions or by the two directions of one.
THEOREM OwnKeys == Spec => []KeysAreOwn
<1>1. HandshakeInv => KeysAreOwn
  <2> SUFFICES ASSUME HandshakeInv, NEW d \in established, NEW e \in established
               PROVE  /\ d.kcmd # e.kres
                      /\ d.kcmd = e.kcmd \/ d.kres = e.kres => d = e
    BY DEF KeysAreOwn
  <2>1. PICK et : d.kcmd = HostSchedule(d.call, et).kcmd /\ d.kres = HostSchedule(d.call, et).kres
    BY DEF HandshakeInv, EstablishedFit
  <2>2. PICK et2 : e.kcmd = HostSchedule(e.call, et2).kcmd /\ e.kres = HostSchedule(e.call, et2).kres
    BY DEF HandshakeInv, EstablishedFit
  <2>3. d.kcmd # e.kres
    BY <2>1, <2>2, KeysDiffer DEF HostSchedule
  <2>4. ASSUME d.kcmd = e.kcmd \/ d.kres = e.kres PROVE d = e
    <3>1. X25519(d.call.eh, d.call.stpub) = X25519(e.call.eh, e.call.stpub)
      BY <2>1, <2>2, <2>4, KeyParts DEF HostSchedule
    <3>2. d.call \in Calls /\ e.call \in Calls
      BY DEF HandshakeInv, TypeOK
    <3>3. d.call.eh \in Ephemeral /\ e.call.eh \in Ephemeral /\ d.call.stpub \in Chips /\ e.call.stpub \in Chips
      BY <3>2 DEF Calls
    <3>4. d.call.eh = e.call.eh
      BY <3>1, <3>3, HandshakeAssumption DEF X25519
    <3> QED
      BY <3>4 DEF HandshakeInv, OneEach
  <2> QED
    BY <2>3, <2>4
<1> QED
  BY <1>1, Inductive, PTL

-----------------------------------------------------------------------------
\* l3IncrementIV is an increment modulo Radix^4.  The proof splits on the byte
\* at which the carry stops.

\* The bytes stay bytes.
LEMMA IncrementType ==
  ASSUME NEW b \in [Index -> Byte]
  PROVE  l3IncrementIV(b) \in [Index -> Byte]
<1>1. \A i \in Index : Bumped(b[i]) \in Byte /\ b[i] \in Byte
  BY RadixAssumption DEF Bumped, Byte
<1>2. QED
  BY <1>1 DEF l3IncrementIV

\* The bytes of the successor, one by one: byte i changes exactly when all
\* the bytes below it are at their largest value.
LEMMA Bytes ==
  ASSUME NEW b \in [Index -> Byte]
  PROVE  LET n == l3IncrementIV(b)  m == Radix - 1 IN
         /\ n[0] = Bumped(b[0])
         /\ n[1] = IF b[0] = m THEN Bumped(b[1]) ELSE b[1]
         /\ n[2] = IF b[0] = m /\ b[1] = m THEN Bumped(b[2]) ELSE b[2]
         /\ n[3] = IF b[0] = m /\ b[1] = m /\ b[2] = m THEN Bumped(b[3]) ELSE b[3]
<1>1. /\ Carries(b, 0)
      /\ Carries(b, 1) <=> b[0] = Radix - 1
      /\ Carries(b, 2) <=> b[0] = Radix - 1 /\ b[1] = Radix - 1
      /\ Carries(b, 3) <=> b[0] = Radix - 1 /\ b[1] = Radix - 1 /\ b[2] = Radix - 1
  BY DEF Carries
<1>2. QED
  BY <1>1 DEF l3IncrementIV, Index

\* One digit of a carry: an exhausted byte gives its weight to the next one.
LEMMA Carry ==
  ASSUME NEW x \in Nat
  PROVE  (Radix - 1) + Radix * x + 1 = Radix * (x + 1)
BY RadixAssumption, Z3

\* The successor of a number, see AddsOne.
LEMMA Successor ==
  ASSUME NEW b \in [Index -> Byte]
  PROVE  Value(l3IncrementIV(b)) = IF b = Exhausted THEN 0 ELSE Value(b) + 1
<1> DEFINE n == l3IncrementIV(b)
           m == Radix - 1
<1>1. /\ Radix \in Nat /\ Radix > 1 /\ m \in Nat /\ m + 1 = Radix
      /\ b[0] \in Nat /\ b[1] \in Nat /\ b[2] \in Nat /\ b[3] \in Nat
  BY RadixAssumption DEF Index, Byte
<1>2. /\ n[0] = Bumped(b[0])
      /\ n[1] = IF b[0] = m THEN Bumped(b[1]) ELSE b[1]
      /\ n[2] = IF b[0] = m /\ b[1] = m THEN Bumped(b[2]) ELSE b[2]
      /\ n[3] = IF b[0] = m /\ b[1] = m /\ b[2] = m THEN Bumped(b[3]) ELSE b[3]
  BY Bytes
<1>3. b = Exhausted <=> b[0] = m /\ b[1] = m /\ b[2] = m /\ b[3] = m
  BY DEF Exhausted, Index
<1> DEFINE v2 == b[2] + Radix * b[3]
           v1 == b[1] + Radix * v2
<1>4. /\ Radix * b[3] \in Nat
      /\ v2 \in Nat /\ Radix * v2 \in Nat
      /\ v1 \in Nat /\ Radix * v1 \in Nat
  BY <1>1, Z3
<1>5. Value(b) = b[0] + Radix * v1
  BY DEF Value
<1> HIDE DEF n, m, v1, v2
<1>6. CASE b[0] # m
  <2>1. n[0] = b[0] + 1 /\ n[1] = b[1] /\ n[2] = b[2] /\ n[3] = b[3]
    BY <1>1, <1>2, <1>6 DEF Bumped, m
  <2>2. Value(n) = b[0] + 1 + Radix * v1
    BY <2>1 DEF Value, v1, v2
  <2>3. Value(n) = Value(b) + 1
    BY <2>2, <1>1, <1>4, <1>5
  <2>4. QED
    BY <2>3, <1>3, <1>6 DEF n
<1>7. CASE b[0] = m /\ b[1] # m
  <2>1. Value(n) = Radix * (v1 + 1)
    BY <1>1, <1>2, <1>7 DEF Value, Bumped, n, m, v1, v2
  <2>2. Value(b) + 1 = Radix * (v1 + 1)
    BY <1>1, <1>4, <1>5, <1>7, Carry DEF m
  <2>3. QED
    BY <2>1, <2>2, <1>3, <1>7 DEF n
<1>8. CASE b[0] = m /\ b[1] = m /\ b[2] # m
  <2>1. Value(n) = Radix * (Radix * (v2 + 1))
    BY <1>1, <1>2, <1>4, <1>8 DEF Value, Bumped, n, m, v2
  <2>2. v1 + 1 = Radix * (v2 + 1)
    BY <1>1, <1>4, <1>8, Carry DEF m, v1
  <2>3. Value(b) + 1 = Radix * (v1 + 1)
    BY <1>1, <1>4, <1>5, <1>8, Carry DEF m
  <2>4. QED
    BY <2>1, <2>2, <2>3, <1>3, <1>8 DEF n
<1>9. CASE b[0] = m /\ b[1] = m /\ b[2] = m /\ b[3] # m
  <2>1. Value(n) = Radix * (Radix * (Radix * (b[3] + 1)))
    BY <1>1, <1>2, <1>4, <1>9 DEF Value, Bumped, n, m
  <2>2. v2 + 1 = Radix * (b[3] + 1)
    BY <1>1, <1>4, <1>9, Carry DEF m, v2
  <2>3. v1 + 1 = Radix * (v2 + 1)
    BY <1>1, <1>4, <1>9, Carry DEF m, v1
  <2>4. Value(b) + 1 = Radix * (v1 + 1)
    BY <1>1, <1>4, <1>5, <1>9, Carry DEF m
  <2>5. QED
    BY <2>1, <2>2, <2>3, <2>4, <1>3, <1>9 DEF n
<1>10. CASE b[0] = m /\ b[1] = m /\ b[2] = m /\ b[3] = m
  <2>1. n[0] = 0 /\ n[1] = 0 /\ n[2] = 0 /\ n[3] = 0
    BY <1>2, <1>10 DEF Bumped, m
  <2>2. Value(n) = 0
    BY <2>1, <1>1 DEF Value
  <2>3. QED
    BY <2>2, <1>3, <1>10 DEF n
<1>11. QED
  BY <1>6, <1>7, <1>8, <1>9, <1>10

\* The counter is four bytes in every state.
THEOREM CounterTyping == CounterSpec => []CounterTypeOK
<1>1. CounterInit => CounterTypeOK
  BY RadixAssumption DEF CounterInit, CounterTypeOK, Index, Byte
<1>2. CounterTypeOK /\ [CounterNext]_iv => CounterTypeOK'
  BY IncrementType DEF CounterTypeOK, CounterNext
<1>3. QED
  BY <1>1, <1>2, PTL DEF CounterSpec

\* Every step of the counter adds one, up to the wrap.
THEOREM Counting == CounterSpec => AddsOne
<1>1. CounterTypeOK /\ [CounterNext]_iv =>
        [Value(iv') = IF iv = Exhausted THEN 0 ELSE Value(iv) + 1]_iv
  BY Successor DEF CounterTypeOK, CounterNext
<1>2. QED
  BY <1>1, CounterTyping, PTL DEF CounterSpec, AddsOne
=============================================================================
