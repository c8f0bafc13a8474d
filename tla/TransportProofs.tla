--------------------------- MODULE TransportProofs ---------------------------
(***************************************************************************)
(* Proofs about the two hardware transports.  Of the Linux transport: its  *)
(* descriptors, for every set of descriptors and whatever the rest of the  *)
(* program opens and closes.  Then what UsbDongleProofs says of the dongle *)
(* is brought to MCTransports, where the program uses one or the other.    *)
(***************************************************************************)
EXTENDS MCTransports, TLAPS

\* No descriptor is -1, the value of a field that names nothing.
LEMMA NotADescriptor == -1 \notin FDs
BY LinuxSPIAssumption

\* The other users of descriptors leave the fields alone.
LEMMA OthersKeepType ==
  ASSUME TypeOK, UNCHANGED <<pc, spiFD, gpioFD, csFD, last, up, again>>,
         files' \in [FDs -> {"free", "spi", "gpio", "line", "other"}],
         cs' \in {"LOW", "HIGH"}
  PROVE  TypeOK'
BY DEF TypeOK

\* Types are an invariant of every step.
LEMMA TypeStep == TypeOK /\ [Next]_vars => TypeOK'
<1> SUFFICES ASSUME TypeOK, [Next]_vars
             PROVE  TypeOK'
  OBVIOUS
<1> USE NotADescriptor DEF TypeOK, Steps
<1>1. CASE InitCall
  BY <1>1 DEF InitCall
<1>2. CASE OpenSPI
  BY <1>2 DEF OpenSPI, Opened
<1>3. CASE OpenSPIFails
  BY <1>3 DEF OpenSPIFails, InitReturns
<1>4. CASE Configure
  BY <1>4 DEF Configure, Follows
<1>5. CASE OpenGPIO
  BY <1>5 DEF OpenGPIO, Opened
<1>6. CASE GetLine
  BY <1>6 DEF GetLine, Opened, InitReturns
<1>7. CASE StepFails
  BY <1>7 DEF StepFails, closeAll, Closed, InitReturns
<1>8. CASE Deinit
  BY <1>8 DEF Deinit, closeAll, Closed
<1>12. CASE \E level \in {"LOW", "HIGH"} : Drive(level)
  BY <1>12 DEF Drive
<1>13. CASE Transfer
  BY <1>13 DEF Transfer
<1>9. CASE OtherOpens
  <2>1. files' \in [FDs -> {"free", "spi", "gpio", "line", "other"}]
    BY <1>9 DEF OtherOpens, Opened
  <2> QED
    BY <1>9, <2>1, OthersKeepType DEF OtherOpens
<1>10. CASE OtherCloses
  <2>1. /\ files' \in [FDs -> {"free", "spi", "gpio", "line", "other"}]
        /\ cs' \in {"LOW", "HIGH"}
    BY <1>10 DEF OtherCloses, Closed
  <2> QED
    BY <1>10, <2>1, OthersKeepType DEF OtherCloses
<1>11. CASE UNCHANGED vars
  BY <1>11, OthersKeepType DEF vars
<1> QED
  BY <1>1, <1>2, <1>3, <1>4, <1>5, <1>6, <1>7, <1>8, <1>9, <1>10, <1>11, <1>12, <1>13 DEF Next

\* Every field is -1 or a descriptor, and Init knows what it has opened so far.
THEOREM Typing == Spec => []TypeOK
<1>1. Init => TypeOK
  BY DEF Init, TypeOK, Steps
<1> QED
  BY <1>1, TypeStep, PTL DEF Spec

-----------------------------------------------------------------------------

\* Where Init stands in its course, as long as nobody called it twice: the
\* fields it has yet to fill are empty.
FieldsFillInOrder ==
  ~again => /\ up => pc = "idle" /\ last # "Init error"
            /\ ~up /\ pc \in {"idle", "openSPI"} => spiFD = -1
            /\ ~up /\ pc \notin {"chipInfo", "getLine"} => gpioFD = -1
            /\ ~up => csFD = -1

NoStray == ~again => \A fd \in FDs : Ours(fd) => fd \in Named

FilesInv == TypeOK /\ FieldsNameOwnFiles /\ LineIsNotLost /\ FieldsFillInOrder /\ NoStray

LEMMA FilesInit == Init => FilesInv
BY DEF Init, FilesInv, TypeOK, Steps, FieldsNameOwnFiles, LineIsNotLost, FieldsFillInOrder,
       NoStray, Ours, Named

\* A call that leaves fields and files alone leaves the invariant alone.
LEMMA SameFiles ==
  ASSUME FilesInv, TypeOK',
         UNCHANGED <<pc, spiFD, gpioFD, csFD, files, up, again>>,
         last' # "Init error" \/ last' = last
  PROVE  FilesInv'
<1>1. (FieldsNameOwnFiles /\ LineIsNotLost)'
  BY DEF FilesInv, FieldsNameOwnFiles, LineIsNotLost
<1>2. FieldsFillInOrder'
  BY DEF FilesInv, FieldsFillInOrder
<1>3. NoStray'
  BY DEF FilesInv, NoStray, Ours, Named
<1> QED
  BY <1>1, <1>2, <1>3 DEF FilesInv

\* A step that opens a file keeps the fields apart, since its descriptor was
\* free; closeAll empties all fields; the rest of the program closes only what
\* is its own.
LEMMA FilesStep == FilesInv /\ [Next]_vars => FilesInv'
<1> SUFFICES ASSUME FilesInv, [Next]_vars
             PROVE  FilesInv'
  OBVIOUS
<1>a. TypeOK'
  BY TypeStep DEF FilesInv
<1> USE NotADescriptor DEF FilesInv, TypeOK, Steps, FieldsNameOwnFiles, LineIsNotLost,
        FieldsFillInOrder, NoStray, Ours, Named
<1>1. CASE InitCall
  BY <1>a, <1>1 DEF InitCall
<1>2. CASE OpenSPI
  BY <1>a, <1>2 DEF OpenSPI, Opened
<1>3. CASE OpenSPIFails
  BY <1>a, <1>3 DEF OpenSPIFails, InitReturns
<1>4. CASE Configure
  BY <1>a, <1>4 DEF Configure, Follows
<1>5. CASE OpenGPIO
  BY <1>a, <1>5 DEF OpenGPIO, Opened
<1>6. CASE GetLine
  <2>1. csFD = -1
    BY <1>6 DEF GetLine
  <2>2. PICK fd \in FDs : Opened(fd, "line") /\ csFD' = fd
    BY <1>6 DEF GetLine
  <2>3. up' = TRUE /\ last' = "Init nil" /\ pc' = "idle" /\ UNCHANGED <<spiFD, gpioFD, again>>
    BY <1>6 DEF GetLine, InitReturns
  <2>4. FieldsNameOwnFiles'
    BY <2>2, <2>3 DEF Opened
  <2>5. LineIsNotLost'
    BY <1>6, <2>2, <2>3 DEF GetLine, Opened
  <2>6. FieldsFillInOrder'
    BY <2>3
  <2>7. NoStray'
    BY <2>1, <2>2, <2>3 DEF Opened
  <2> QED
    BY <1>a, <2>4, <2>5, <2>6, <2>7
<1>7. CASE StepFails
  BY <1>a, <1>7 DEF StepFails, closeAll, Closed, InitReturns
<1>8. CASE Deinit
  BY <1>a, <1>8 DEF Deinit, closeAll, Closed
<1>12. CASE \E level \in {"LOW", "HIGH"} : Drive(level)
  <2>1. UNCHANGED <<pc, spiFD, gpioFD, csFD, files, up, again>> /\ last' # "Init error"
    BY <1>12 DEF Drive
  <2> QED
    BY <1>a, <2>1, SameFiles
<1>13. CASE Transfer
  <2>1. UNCHANGED <<pc, spiFD, gpioFD, csFD, files, up, again>> /\ last' # "Init error"
    BY <1>13 DEF Transfer
  <2> QED
    BY <1>a, <2>1, SameFiles
<1>9. CASE OtherOpens
  BY <1>a, <1>9 DEF OtherOpens, Opened
<1>10. CASE OtherCloses
  BY <1>a, <1>10 DEF OtherCloses, Closed
<1>11. CASE UNCHANGED vars
  <2>1. UNCHANGED <<pc, spiFD, gpioFD, csFD, files, up, again>> /\ last' = last
    BY <1>11 DEF vars
  <2> QED
    BY <1>a, <2>1, SameFiles
<1> QED
  BY <1>1, <1>2, <1>3, <1>4, <1>5, <1>6, <1>7, <1>8, <1>9, <1>10, <1>11, <1>12, <1>13 DEF Next

\* The transport never operates on, and never closes, a file of another part of
\* the program.
THEOREM OwnFiles == Spec => []FieldsNameOwnFiles
<1>1. FilesInv => FieldsNameOwnFiles
  BY DEF FilesInv
<1> QED
  BY <1>1, FilesInit, FilesStep, PTL DEF Spec

\* The chip-select line can always be requested again after a Deinit.
THEOREM LineKept == Spec => []LineIsNotLost
<1>1. FilesInv => LineIsNotLost
  BY DEF FilesInv
<1> QED
  BY <1>1, FilesInit, FilesStep, PTL DEF Spec

\* Without a second Init every open file of the transport is named by a field,
\* and an Init that failed left none.
THEOREM NoLeak == Spec => []NothingLeaks
<1>1. FilesInv => NothingLeaks
  BY NotADescriptor DEF FilesInv, NothingLeaks, NoStray, FieldsFillInOrder, FieldsNameOwnFiles, TypeOK, Named
<1> QED
  BY <1>1, FilesInit, FilesStep, PTL DEF Spec

-----------------------------------------------------------------------------

\* A file that another part of the program closes is not the line, and whoever
\* changes its level leaves another outcome than a fresh Init.
LEMMA ReleasedStep == StartsReleased /\ TypeOK /\ [Next]_vars => StartsReleased'
<1> SUFFICES ASSUME StartsReleased, TypeOK, [Next]_vars
             PROVE  StartsReleased'
  OBVIOUS
<1> USE DEF StartsReleased, TypeOK, Steps
<1>1. CASE InitCall \/ OpenSPI \/ Configure \/ OpenGPIO \/ OtherOpens
  BY <1>1 DEF InitCall, OpenSPI, Configure, Follows, OpenGPIO, OtherOpens, Opened
<1>2. CASE OpenSPIFails \/ StepFails \/ Deinit
  BY <1>2 DEF OpenSPIFails, StepFails, Deinit, InitReturns
<1>3. CASE GetLine
  BY <1>3 DEF GetLine
<1>4. CASE \E level \in {"LOW", "HIGH"} : Drive(level)
  BY <1>4 DEF Drive
<1>5. CASE Transfer
  BY <1>5 DEF Transfer
<1>6. CASE OtherCloses
  BY <1>6 DEF OtherCloses, Closed
<1>7. CASE UNCHANGED vars
  BY <1>7 DEF vars
<1> QED
  BY <1>1, <1>2, <1>3, <1>4, <1>5, <1>6, <1>7 DEF Next

\* After Init the chip is not selected, whatever level the line had before.
THEOREM Released == Spec => []StartsReleased
<1>1. Init => StartsReleased
  BY DEF Init, StartsReleased
<1> QED
  BY <1>1, ReleasedStep, Typing, PTL DEF Spec

-----------------------------------------------------------------------------
\* The program uses one of the two.

\* UsbDongle as its proofs see it.
U == INSTANCE UsbDongleProofs

LEMMA SameState ==
  /\ U!Init <=> Usb!Init
  /\ U!vars = Usb!vars
  /\ U!TypeOK <=> Usb!TypeOK
  /\ U!OddSlipIsDetected <=> Usb!OddSlipIsDetected
BY DEF U!Init, Usb!Init, U!Own, Usb!Own, U!vars, Usb!vars, U!TypeOK, Usb!TypeOK, U!Line, Usb!Line, U!Left, Usb!Left, U!OddSlipIsDetected, Usb!OddSlipIsDetected

LEMMA SameSteps == U!Next <=> Usb!Next
<1>1. U!NotOpen <=> Usb!NotOpen
  BY Zenon DEF U!NotOpen, Usb!NotOpen, U!Counted, Usb!Counted, U!Other, Usb!Other, U!Return, Usb!Return, U!Own, Usb!Own
<1>2. U!Write <=> Usb!Write
  BY Zenon DEF U!Write, Usb!Write, U!Counted, Usb!Counted, U!Owed, Usb!Owed, U!Return, Usb!Return, U!Own, Usb!Own, U!Other, Usb!Other
<1>3. U!WriteFails <=> Usb!WriteFails
  BY Zenon DEF U!WriteFails, Usb!WriteFails, U!Counted, Usb!Counted, U!Owed, Usb!Owed, U!Return, Usb!Return, U!Own, Usb!Own, U!Other, Usb!Other
<1>4. U!HostStep <=> Usb!HostStep
  BY Zenon DEF U!HostStep, Usb!HostStep, U!ReadLine, Usb!ReadLine, U!EmptyRead, Usb!EmptyRead, U!ReadFails, Usb!ReadFails, U!Return, Usb!Return, U!Own, Usb!Own, U!ExpectOK, Usb!ExpectOK, U!Decoded, Usb!Decoded, U!Counted, Usb!Counted, U!Owed, Usb!Owed, U!Dropped, Usb!Dropped, U!Other, Usb!Other
<1>5. U!Open <=> Usb!Open
  BY Zenon DEF U!Open, Usb!Open, U!Other, Usb!Other, U!Return, Usb!Return, U!Own, Usb!Own
<1>6. U!Deinit <=> Usb!Deinit
  BY Zenon DEF U!Deinit, Usb!Deinit, U!Closed, Usb!Closed, U!Dropped, Usb!Dropped
<1>7. U!Killed <=> Usb!Killed
  BY Zenon DEF U!Killed, Usb!Killed, U!Closed, Usb!Closed, U!Dropped, Usb!Dropped, U!Return, Usb!Return, U!Other, Usb!Other, U!Own, Usb!Own
<1>8. U!SendsPiece <=> Usb!SendsPiece
  BY Zenon DEF U!SendsPiece, Usb!SendsPiece
<1>9. U!SendsLine <=> Usb!SendsLine
  BY Zenon DEF U!SendsLine, Usb!SendsLine
<1>10. U!Unplugged <=> Usb!Unplugged
  BY Zenon DEF U!Unplugged, Usb!Unplugged, U!Dropped, Usb!Dropped, U!Closed, Usb!Closed, U!Return, Usb!Return, U!Own, Usb!Own
<1> QED
  BY <1>1, <1>2, <1>3, <1>4, <1>5, <1>6, <1>7, <1>8, <1>9, <1>10 DEF U!Next, Usb!Next

LEMMA SameInterface ==
  /\ U!Interface!Init <=> Usb!Interface!Init
  /\ U!Interface!Next <=> Usb!Interface!Next
  /\ U!Interface!vars = Usb!Interface!vars
BY Zenon DEF U!Interface!Init, U!Interface!Next, U!Interface!vars, U!Interface!Transfer, U!Interface!Answered, U!Interface!Fails, U!Interface!Recovers, Usb!Interface!Init, Usb!Interface!Next, Usb!Interface!vars, Usb!Interface!Transfer, Usb!Interface!Answered, Usb!Interface!Fails, Usb!Interface!Recovers

\* A step of the program is one of its transport, which the other does not see.
LEMMA EitherTransport == TransportsSpec => Spec /\ U!Spec
<1>1. TransportsInit => Init /\ U!Init
  BY SameState DEF TransportsInit
<1>2. [TransportsNext]_<<vars, usbVars, used>> => [Next]_vars /\ [U!Next]_U!vars
  <2> SUFFICES ASSUME [TransportsNext]_<<vars, usbVars, used>>
               PROVE  [Next]_vars /\ [U!Next]_U!vars
    OBVIOUS
  <2>1. ASSUME UNCHANGED usbVars PROVE UNCHANGED U!vars
    BY <2>1 DEF U!vars, usbVars
  <2>2. CASE used = "spi" /\ Next /\ UNCHANGED <<usbVars, used>>
    <3>1. UNCHANGED usbVars
      BY <2>2
    <3> QED
      BY <2>1, <2>2, <3>1
  <2>3. CASE used = "usb" /\ Usb!Next /\ UNCHANGED <<vars, used>>
    <3>1. UNCHANGED vars
      BY <2>3
    <3> QED
      BY <2>3, <3>1, SameSteps
  <2>4. CASE UNCHANGED <<vars, usbVars, used>>
    <3>1. UNCHANGED vars /\ UNCHANGED usbVars
      BY <2>4
    <3> QED
      BY <2>1, <3>1
  <2> QED
    BY <2>2, <2>3, <2>4 DEF TransportsNext
<1> QED
  BY <1>1, <1>2, PTL DEF TransportsSpec, Spec, U!Spec

\* The state of either transport keeps its type.
THEOREM TransportsTyping == TransportsSpec => []TransportsTypeOK
<1>1. TypeOK /\ U!TypeOK => TransportsTypeOK
  BY SameState DEF TransportsTypeOK
<1>2. U!Spec => []U!TypeOK
  BY U!Typing, UsbDongleAssumption, PTL
<1>3. TransportsSpec => []TypeOK
  BY EitherTransport, Typing, PTL
<1> QED
  BY <1>1, <1>2, <1>3, EitherTransport, PTL

\* As long as L1's order of commands was kept, a connection that is an odd number
\* of lines late returns no older data and no OK.
THEOREM OddSlip == TransportsSpec => []OddSlipIsDetected
<1>1. U!OddSlipIsDetected => OddSlipIsDetected
  BY SameState DEF OddSlipIsDetected
<1>2. U!Spec => []U!OddSlipIsDetected
  BY U!OddSlip, UsbDongleAssumption, PTL
<1> QED
  BY <1>1, <1>2, EitherTransport, PTL

\* A Transfer of the dongle that returns nil returns the bytes of its own exchange
\* until the first call that failed or was cut short: it implements Transport.
THEOREM Promise == TransportsSpec => ImplementsTransport
<1>1. U!Spec => U!ImplementsTransport
  BY U!Promise, UsbDongleAssumption, PTL
<1>2. U!Interface!Init => Usb!Interface!Init
  BY SameInterface
<1>3. [U!Interface!Next]_U!Interface!vars => [Usb!Interface!Next]_Usb!Interface!vars
  BY SameInterface DEF U!Interface!vars, Usb!Interface!vars
<1>4. U!Interface!Spec => Usb!Interface!Spec
  BY <1>2, <1>3, PTL DEF U!Interface!Spec, Usb!Interface!Spec
<1> QED
  BY <1>1, <1>4, EitherTransport, PTL DEF ImplementsTransport, U!ImplementsTransport, Usb!ImplementsTransport
=============================================================================
