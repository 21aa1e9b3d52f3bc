---------------------------- MODULE MCTransport -----------------------------
(* Transport for TLC.                                                      *)
EXTENDS Transport

MCStatement == <<2, 3>>

(***************************************************************************)
(* Two shifts: progress and payments, with two colleagues at the bank's    *)
(* statement; claims and photos, with two desks that decide and two phones.*)
(***************************************************************************)
MCShifts ==
  {[o1 |-> {"job", "update", "statement"},
    o2 |-> {"statement", "delete"},
    p1 |-> {"drive"},
    p2 |-> {"drive"}],
   [o1 |-> {"job", "update", "delete", "expense", "decide", "edit"},
    o2 |-> {"decide"},
    p1 |-> {"submit", "upload"},
    p2 |-> {"upload"}]}

MCDesk == {[o1 |-> {"job", "update", "statement"}]}

(* A job paid in two instalments of one statement.                         *)
MCInstalments == <<1, 2>>
=============================================================================
