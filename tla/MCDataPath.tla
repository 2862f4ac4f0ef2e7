----------------------------- MODULE MCDataPath -----------------------------
(* Instances of DataPath: short ClientHellos and request heads.  The offsets   *)
(* of a real ClientHello's extensions start at 49 or later; here they are  *)
(* shifted down, since everything before them reads the same.              *)
EXTENDS DataPath

Ext(isSni, end) == [sni |-> isSni, end |-> end]
Hello(size, start, exts) == [kind |-> "tls", size |-> size, extensions |-> start, exts |-> exts]

SniFirst == Hello(18, 4, <<Ext(TRUE, 12), Ext(FALSE, 18)>>)
SniLast == Hello(24, 4, <<Ext(FALSE, 9), Ext(FALSE, 16), Ext(TRUE, 24)>>)
NoSni == Hello(12, 4, <<Ext(FALSE, 8), Ext(FALSE, 12)>>)
NoExtensions == Hello(6, 0, << >>)

Request(method, host, hostEnd, head, size) ==
  [kind |-> "http", method |-> method, host |-> host, hostEnd |-> hostEnd, head |-> head, size |-> size]

Get == Request(4, 9, 14, 18, 18)
Post == Request(5, 16, 20, 22, 26)
NoHost == Request(4, 0, 0, 10, 14)
Garbage == [kind |-> "other", size |-> 3]

MCStreams == {SniFirst, SniLast, NoSni, NoExtensions, Get, Post, NoHost, Garbage}
=============================================================================
