---------------------------- MODULE MCRunMemory ----------------------------
(***************************************************************************)
(* Two programs and one other block in a heap of eight pages of four       *)
(* units.  The layouts: .text with an empty .data, nothing but empty       *)
(* sections, and one with a user section, an alignment beyond the page and *)
(* a .plt that was created behind the data sections.                       *)
(***************************************************************************)
EXTENDS RunMemory

sec(k, a, n) == [class |-> k, align |-> a, length |-> n]

MCLayouts ==
  { <<sec(0, 2, 3), sec(2, 2, 0), sec(2, 1, 1)>>,
    <<sec(0, 1, 5), sec(2, 8, 1), sec(1, 1, 1), sec(0, 2, 1)>>,
    <<sec(0, 1, 0), sec(2, 1, 2)>> }
=============================================================================
