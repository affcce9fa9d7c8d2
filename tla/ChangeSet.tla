----------------------------- MODULE ChangeSet ------------------------------
(***************************************************************************)
(* The difference of two outputs (packages/contracts/src/diff.ts).  An     *)
(* output is a sequence of [field, value] in the order of the monitor's    *)
(* fields; the order is data of the program that must not matter.          *)
(***************************************************************************)
EXTENDS Naturals, Sequences, FiniteSets

(* An output lists its fields with their values. *)
IsOutput(output) == Len(output) \in Nat /\ DOMAIN output = 1..Len(output)
KeysOf(output) == {output[i].field : i \in DOMAIN output}
ValueOf(output, field) == (CHOOSE i \in DOMAIN output : output[i].field = field)
Get(output, field) == output[ValueOf(output, field)].value

(* canonicalize sorts the keys of a record and keeps the order of a list. *)
Canonicalize(output) == [field \in KeysOf(output) |-> Get(output, field)]

ComparesByPosition(before, current, field) ==
  before[1].value # current[1].value

(* The values of a field in both outputs have different canonical forms. *)
Differs(before, current, field) == Get(before, field) # Get(current, field)

BuildChangeSet(before, current) ==
  LET added   == {[field |-> f, kind |-> "added", after |-> Get(current, f)] :
                    f \in KeysOf(current) \ KeysOf(before)}
      removed == {[field |-> f, kind |-> "removed", before |-> Get(before, f)] :
                    f \in KeysOf(before) \ KeysOf(current)}
      changed == {[field |-> f, kind |-> "changed", before |-> Get(before, f), after |-> Get(current, f)] :
                    f \in {g \in KeysOf(before) \cap KeysOf(current) : Differs(before, current, g)}}
      entries == added \cup removed \cup changed
  IN [hasChanges |-> entries # {}, changeCount |-> Cardinality(entries),
      added |-> Cardinality(added), removed |-> Cardinality(removed), changed |-> Cardinality(changed),
      entries |-> entries]
=============================================================================
