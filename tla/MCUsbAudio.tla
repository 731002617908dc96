----------------------------- MODULE MCUsbAudio -----------------------------
(* UsbAudio with a buffer of four packets of three bytes, and packets of   *)
(* every size.                                                             *)
EXTENDS UsbAudio

MCSizes == 0 .. PacketSize
=============================================================================
