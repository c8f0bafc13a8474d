---------------------------- MODULE MCTransports ----------------------------
(***************************************************************************)
(* The two hardware transports: the descriptors of SPITransport (LinuxSPI) *)
(* and the line protocol of the USB dongle (UsbDongle).  A program uses    *)
(* one of them; the instance has the behaviours of either.                 *)
(***************************************************************************)
EXTENDS LinuxSPI, UsbBounds

VARIABLES port, call, due, empty, lines, pieces, replies, exchanges, ret, failed, skipped, slip

VARIABLE used

Usb == INSTANCE UsbDongle

usbVars == <<port, call, due, empty, lines, pieces, replies, exchanges, ret, failed, skipped, slip>>

TransportsInit == Init /\ Usb!Init /\ used \in {"spi", "usb"}

TransportsNext ==
  \/ used = "spi" /\ Next /\ UNCHANGED <<usbVars, used>>
  \/ used = "usb" /\ Usb!Next /\ UNCHANGED <<vars, used>>

\* The fairness of UsbDongle.
TransportsSpec ==
  TransportsInit /\ [][TransportsNext]_<<vars, usbVars, used>> /\ WF_usbVars(Usb!HostStep)

-----------------------------------------------------------------------------

\* The state of either transport keeps its type.
TransportsTypeOK == TypeOK /\ Usb!TypeOK

\* The properties of UsbDongle.
OddSlipIsDetected == Usb!OddSlipIsDetected
ImplementsTransport == Usb!ImplementsTransport
CallReturns == Usb!CallReturns
=============================================================================
