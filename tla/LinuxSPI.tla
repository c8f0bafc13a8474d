------------------------------ MODULE LinuxSPI ------------------------------
(***************************************************************************)
(* The life of the three file descriptors of SPITransport,                 *)
(* tropic01/hal/linux/spi.go: Init opens the SPI device and the GPIO chip  *)
(* and requests the chip-select line from the latter, and any of its seven *)
(* steps may fail; closeAll gives back what the fields name.  Descriptors  *)
(* are small numbers that the kernel hands out again once they are closed, *)
(* also to the rest of the program, whose goroutines run in between.       *)
(* CSNLow, CSNHigh and Transfer are ioctls on what the fields name.        *)
(***************************************************************************)
EXTENDS Integers

CONSTANT FDs  \* file descriptors of the process

ASSUME LinuxSPIAssumption == FDs \subseteq Nat

VARIABLES
  pc,      \* the next step of a running Init, "idle" outside
  spiFD,   \* SPITransport.spiFD
  gpioFD,  \* SPITransport.gpioFD
  csFD,    \* SPITransport.csFD
  files,   \* what each descriptor is open for, "free" when it is not
  last,    \* the last call that returned, and how
  cs,      \* level of the chip-select line, LOW when the chip is selected
  up,      \* history: Init returned nil and Deinit was not called since
  again    \* history: Init was called when it was up

vars == <<pc, spiFD, gpioFD, csFD, files, last, cs, up, again>>

Steps == {"openSPI", "wrMode", "rdMode", "maxSpeed", "openGPIO", "chipInfo", "getLine"}

\* Fields are -1 or descriptors; the step that runs tells what Init has opened.
TypeOK ==
  /\ pc \in {"idle"} \union Steps
  /\ spiFD \in FDs \union {-1}
  /\ gpioFD \in FDs \union {-1}
  /\ csFD \in FDs \union {-1}
  /\ files \in [FDs -> {"free", "spi", "gpio", "line", "other"}]
  /\ last \in {"none", "Init nil", "Init error", "call nil", "call error", "Deinit"}
  /\ cs \in {"LOW", "HIGH"}
  /\ up \in BOOLEAN
  /\ again \in BOOLEAN
  /\ pc \in Steps \ {"openSPI"} => spiFD # -1
  /\ pc \in {"chipInfo", "getLine"} => gpioFD # -1

\* NewSPITransport, in a process with no other files of interest.
Init ==
  /\ pc = "idle"
  /\ spiFD = -1 /\ gpioFD = -1 /\ csFD = -1
  /\ files = [fd \in FDs |-> "free"]
  /\ last = "none"
  /\ cs \in {"LOW", "HIGH"}
  /\ up = FALSE
  /\ again = FALSE

-----------------------------------------------------------------------------

\* Calls of close(2).  A line that is given back takes any level.
Closed(fds) ==
  /\ files' = [fd \in FDs |-> IF fd \in fds THEN "free" ELSE files[fd]]
  /\ cs' \in {"LOW", "HIGH"}
  /\ (\A fd \in FDs \intersect fds : files[fd] # "line") => cs' = cs

\* A closeAll that keeps the numbers, and one that forgets the line.
closeAllKeeping ==
  /\ Closed({csFD, gpioFD, spiFD})
  /\ UNCHANGED <<csFD, gpioFD, spiFD>>

closeAllButLine ==
  /\ Closed({gpioFD, spiFD})
  /\ csFD' = -1 /\ gpioFD' = -1 /\ spiFD' = -1

\* The three fields are closed and reset.
closeAll ==
  /\ Closed({csFD, gpioFD, spiFD})
  /\ csFD' = -1 /\ gpioFD' = -1 /\ spiFD' = -1

InitReturns(how) ==
  /\ pc' = "idle"
  /\ last' = how
  /\ up' = (how = "Init nil")

InitCall ==
  /\ pc = "idle"
  /\ pc' = "openSPI"
  /\ again' = (again \/ up)
  /\ UNCHANGED <<spiFD, gpioFD, csFD, files, last, cs, up>>

\* The kernel opens a file on a free descriptor.
Opened(fd, what) ==
  /\ files[fd] = "free"
  /\ files' = [files EXCEPT ![fd] = what]

OpenSPI ==
  /\ pc = "openSPI"
  /\ \E fd \in FDs : Opened(fd, "spi") /\ spiFD' = fd
  /\ pc' = "wrMode"
  /\ UNCHANGED <<gpioFD, csFD, last, cs, up, again>>

\* The only failure after which nothing is closed.
OpenSPIFails ==
  /\ pc = "openSPI"
  /\ InitReturns("Init error")
  /\ UNCHANGED <<spiFD, gpioFD, csFD, files, cs, again>>

\* An ioctl that configures or queries, and the next step.
Follows(step, next) ==
  /\ pc = step
  /\ pc' = next
  /\ UNCHANGED <<spiFD, gpioFD, csFD, files, last, cs, up, again>>

Configure ==
  \/ Follows("wrMode", "rdMode")
  \/ Follows("rdMode", "maxSpeed")
  \/ Follows("maxSpeed", "openGPIO")
  \/ Follows("chipInfo", "getLine")

\* An Init that keeps the descriptor in a local variable of the same name.
OpenGPIOShadowed ==
  /\ pc = "openGPIO"
  /\ \E fd \in FDs : Opened(fd, "gpio")
  /\ pc' = "chipInfo"
  /\ UNCHANGED <<spiFD, gpioFD, csFD, last, cs, up, again>>

OpenGPIO ==
  /\ pc = "openGPIO"
  /\ \E fd \in FDs : Opened(fd, "gpio") /\ gpioFD' = fd
  /\ pc' = "chipInfo"
  /\ UNCHANGED <<spiFD, csFD, last, cs, up, again>>

\* The line goes to one requester at a time, and HIGH.
GetLine ==
  /\ pc = "getLine"
  /\ \A fd \in FDs : files[fd] # "line"
  /\ \E fd \in FDs : Opened(fd, "line") /\ csFD' = fd
  /\ cs' = "HIGH"
  /\ InitReturns("Init nil")
  /\ UNCHANGED <<spiFD, gpioFD, again>>

\* A late step that fails without giving anything back.
StepFailsOpen ==
  /\ pc \in Steps \ {"openSPI"}
  /\ InitReturns("Init error")
  /\ UNCHANGED <<spiFD, gpioFD, csFD, files, cs, again>>

\* Any later step fails, or the device reads back another mode than 0.
StepFails ==
  /\ pc \in Steps \ {"openSPI"}
  /\ closeAll
  /\ InitReturns("Init error")
  /\ UNCHANGED again

Deinit ==
  /\ pc = "idle"
  /\ closeAll
  /\ last' = "Deinit"
  /\ up' = FALSE
  /\ UNCHANGED <<pc, again>>

\* CSNLow and CSNHigh set the line that csFD names; where it names none, and
\* whenever the kernel will have it so, they fail.
Drive(level) ==
  /\ pc = "idle"
  /\ \/ /\ csFD # -1 /\ files[csFD] = "line"
        /\ cs' = level /\ last' = "call nil"
     \/ last' = "call error" /\ UNCHANGED cs
  /\ UNCHANGED <<pc, spiFD, gpioFD, csFD, files, up, again>>

\* Transfer exchanges bytes with what spiFD names.
Transfer ==
  /\ pc = "idle"
  /\ last' = "call error" \/ (spiFD # -1 /\ files[spiFD] = "spi" /\ last' = "call nil")
  /\ UNCHANGED <<pc, spiFD, gpioFD, csFD, files, cs, up, again>>

\* The rest of the program.
OtherOpens ==
  /\ \E fd \in FDs : Opened(fd, "other")
  /\ UNCHANGED <<pc, spiFD, gpioFD, csFD, last, cs, up, again>>

OtherCloses ==
  /\ \E fd \in FDs : files[fd] = "other" /\ Closed({fd})
  /\ UNCHANGED <<pc, spiFD, gpioFD, csFD, last, up, again>>

Next ==
  \/ InitCall
  \/ OpenSPI
  \/ OpenSPIFails
  \/ Configure
  \/ OpenGPIO
  \/ GetLine
  \/ StepFails
  \/ Deinit
  \/ \E level \in {"LOW", "HIGH"} : Drive(level)
  \/ Transfer
  \/ OtherOpens
  \/ OtherCloses

Spec == Init /\ [][Next]_vars

-----------------------------------------------------------------------------

Ours(fd) == files[fd] \in {"spi", "gpio", "line"}
Named == {spiFD, gpioFD, csFD}

\* A field names the file that it was opened for, or nothing: no ioctl and no
\* close of the transport ever reaches a file of another part of the program
\* to which the kernel gave the number in the meantime.
FieldsNameOwnFiles ==
  /\ spiFD # -1 => files[spiFD] = "spi"
  /\ gpioFD # -1 => files[gpioFD] = "gpio"
  /\ csFD # -1 => files[csFD] = "line"

\* As long as Init is not called twice without a Deinit, no file is open that
\* no field names, whatever fails, and an Init that failed leaves none open.
NothingLeaks ==
  ~again => /\ \A fd \in FDs : Ours(fd) => fd \in Named
            /\ last = "Init error" /\ pc = "idle" => \A fd \in FDs : ~Ours(fd)

\* The chip-select line is never held by a descriptor that the transport has
\* lost, not even after a second Init: the kernel refuses to give it out again,
\* and the failing Init gives back the line of the first.  So a process that
\* lost count can always start afresh with Deinit and Init.
LineIsNotLost ==
  \A fd \in FDs : files[fd] = "line" => fd = csFD

\* A transport that Init has set up does not select the chip, whatever level an
\* earlier life of the transport, or nobody, had left the line at: the first
\* frame starts with a falling edge.
StartsReleased == last = "Init nil" /\ pc = "idle" => cs = "HIGH"
=============================================================================
