------------------------------ MODULE MCSensors ------------------------------
(***************************************************************************)
(* Instance of Sensors for TLC: two connections of which one is IPv4, two  *)
(* processes and a kernel thread, three files in two directories, two      *)
(* hosts and ports, two hubs with the same key, and four browser profiles, *)
(* two of them in two places.                                              *)
(***************************************************************************)
EXTENDS Sensors

CONSTANTS
  p1, p2, kthread,                       \* pids; one is a kernel thread's
  etc, tmp, f1, f2, g1, v1, v2,          \* directories, files, versions
  h1, h2, port1, port2,                  \* hosts and ports
  usb1, usb2, hubkey, unit,              \* two hubs, their key; a service
  work, home, fox, other, page, bar, exe, jar, ext   \* profiles, pages, downloads, an extension

IPv4 == "tcp4"
IPv6 == "tcp6"
TwoKeys == {IPv4, IPv6}
OneKey == {IPv4}

TwoDirs == <<etc, tmp>>
TwoInEtc == [f \in {f1, f2, g1} |-> IF f = g1 THEN tmp ELSE etc]

OneUsbKey == [d \in {usb1, usb2} |-> hubkey]
StartEntry(place, ending, readable) ==
  [place |-> place, ending |-> ending, readable |-> readable, comment |-> FALSE]
SomeEntries ==
  {StartEntry("cron", "none", TRUE), StartEntry("systemd", "service", TRUE),
   StartEntry("systemd", "timer", TRUE), StartEntry("profile", "none", FALSE)}

ThreeBases ==
  <<[default |-> work, ini |-> <<>>, dirs |-> <<work, other>>],
    [default |-> None, ini |-> <<>>, dirs |-> <<home>>],
    [default |-> None, ini |-> <<fox>>, dirs |-> <<fox, other>>]>>
(* The bar's title ends in a number, ahead of the first row's time.        *)
TitleNumber == [x \in {bar} |-> 2]
OneRow == [history |-> 1, downloads |-> 1]
=============================================================================
