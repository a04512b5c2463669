--------------------------- MODULE MCRecordStore ---------------------------
(***************************************************************************)
(* Small instances of RecordStore. Two ordinary hosts that compete for    *)
(* the alias web, a host that is itself called web, and the static host   *)
(* printer, whose name others announce as a hostname and as an alias.     *)
(***************************************************************************)
EXTENDS StoreViews

CONSTANTS h1, h2, web, printer, a1, a2, www

MCNames == {h1, h2, web, printer}

MCStaticHosts == printer :> [addrs |-> {a2}, services |-> {www}]

MCAnnouncements ==
  {[host |-> h1,      aliases |-> {web},     addrs |-> {a1}, services |-> {www}],
   [host |-> h1,      aliases |-> {},        addrs |-> {a2}, services |-> {}],
   [host |-> h2,      aliases |-> {web, h1}, addrs |-> {a1}, services |-> {www}],
   [host |-> web,     aliases |-> {printer}, addrs |-> {a2}, services |-> {}],
   [host |-> printer, aliases |-> {h2},      addrs |-> {a1}, services |-> {www}]}

=============================================================================
