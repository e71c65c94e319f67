------------------------------ MODULE MCLinker ------------------------------
(***************************************************************************)
(* Two files over names of their own and names the linker provides, with   *)
(* an elf_hash() that sends half of the names to the same bucket and       *)
(* two names whose first 95 characters are the same.                       *)
(***************************************************************************)
EXTENDS Linker

D(n, b, v, s) == [name |-> n, bind |-> b, vis |-> v, shndx |-> s]

MCDecls ==
  { D("f", "global", "default", "undef"), D("f", "local", "default", "undef"),
    D("f", "local", "default", "text"), D("f", "global", "default", "mine"),
    D("f", "global", "default", "common"), D("_edata", "global", "default", "undef"),
    D("_edata", "global", "hidden", "data") }
MCUserSections == <<"mine">>
MCStart == [mine |-> "__start_mine"]
MCStop == [mine |-> "__stop_mine"]
MCNames == {"f", "__start_mine", "__stop_mine"} \cup LinkerNames
MCPlt == [n \in MCNames |-> IF n \in {"f", "_edata"} THEN "long@plt" ELSE "short@plt"]
MCHash == [n \in AllNames |-> IF n \in {"f", "_edata", "long@plt"} THEN 2 ELSE 1]
MCBase == [s \in Sections |->
             CASE s = "text" -> 100 [] s = "data" -> 200 [] s = "bss" -> 300 [] s = "got" -> 400
               [] s = "plt" -> 500 [] s = "mine" -> 600 [] OTHER -> 700]
=============================================================================
