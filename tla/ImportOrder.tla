---------------------------- MODULE ImportOrder ----------------------------
(***************************************************************************)
(* The order in which an import works through a file: the datasets first,  *)
(* then each dashboard after its slices, and everything after the          *)
(* connections it came with.  A slice is looked up before its connection   *)
(* is imported, the others after.  An item that two others need is         *)
(* imported twice.                                                         *)
(***************************************************************************)
EXTENDS SequencesExt

Find(n) == [do |-> "find", item |-> n]
Look(n) == [do |-> "look", item |-> n]
Write(n) == [do |-> "write", item |-> n]

Connections(conns) == FlattenSeq([i \in DOMAIN conns |-> <<Find(conns[i]), Write(conns[i])>>])

(* With the database and the HDFS connection it has.                       *)
ImportDataset(t, conns) == Connections(conns) \o <<Find(t), Write(t)>>

(* From a connection, or else from a dataset that it looks up by name.     *)
ImportSlice(s, conns) ==
    <<Find(s)>> \o (IF conns = <<>> THEN <<Look(s)>> ELSE Connections(conns))
    \o <<Write(s)>>

(* slices[i]: the steps of the dashboard's i-th slice                      *)
ImportDashboard(d, slices) == FlattenSeq(slices) \o <<Find(d), Write(d)>>
=============================================================================
