---------------------------- MODULE MCEnrichment ----------------------------
(***************************************************************************)
(* Enrichment for TLC: every configuration of up to two plugins over       *)
(* evaluation files whose procedures shadow one another, that name other   *)
(* catalogs or none, or that cannot be read.                               *)
(***************************************************************************)
EXTENDS Enrichment

Procedure(id, requirement) ==
  [id |-> id, requirement |-> requirement, documentation |-> requirement \o " docs"]
Plan(catalog, control, procedures) ==
  [catalog |-> catalog, control |-> control, procedures |-> procedures]

quality == Plan("OSPS", "QA-07", <<Procedure("branch", "QA-07.01"), Procedure("review", "QA-07.02")>>)
access  == Plan("OSPS", "AC-03", <<Procedure("review", "AC-03.01")>>)
absent  == Plan("OSPS", "gone", <<Procedure("branch", "gone.01")>>)
other   == Plan("CCC", "QA-07", <<Procedure("branch", "CCC.01")>>)
nowhere == Plan("", "QA-07", <<Procedure("branch", "none.01")>>)

Disk ==
  ("a" :> Directory(<<Readable(<<quality, other>>), Readable(<<access>>)>>)) @@
  ("b" :> Directory(<<Readable(<<other>>), Readable(<<quality, absent, nowhere>>)>>)) @@
  ("broken" :> Directory(<<Readable(<<quality>>), Unreadable>>)) @@
  ("empty" :> Directory(<<>>)) @@ ("missing" :> Missing) @@ ("file" :> Regular) @@
  ("" :> Missing)

PluginConfigs ==
  {[id |-> "conforma", dir |-> d] : d \in {"a", "b", "broken"}} \cup
  {[id |-> "opa", dir |-> d] : d \in {"b", "", "empty", "missing", "file"}}

Control(id, category, mappings) == [id |-> id, category |-> category, mappings |-> mappings]
QA07 == Control("QA-07", "Quality", <<[reference |-> "BPB", entries |-> <<"B-G-3">>],
                                      [reference |-> "PSSCRM", entries |-> <<"G2.4", "P3.3">>]>>)
AC03 == Control("AC-03", "Access", <<>>)

Catalogs ==
  {Unreadable,
   Readable([id |-> "OSPS", controls |-> <<QA07, AC03>>]),
   Readable([id |-> "OSPS", controls |-> <<QA07, Control("QA-07", "Build", <<>>)>>]),
   Readable([id |-> "CCC", controls |-> <<QA07>>]),
   Readable([id |-> "", controls |-> <<QA07>>])}

MCInputs ==
  [catalog : Catalogs,
   plugins : UNION {[1..n -> PluginConfigs] : n \in 0..2},
   disk : {Disk}]
=============================================================================
