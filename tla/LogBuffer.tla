----------------------------- MODULE LogBuffer -----------------------------
(* logger.Buffer: the last lines of the log, numbered from 1. *)
EXTENDS Integers, Sequences, FiniteSets

CONSTANTS
  MaxSize,  \* lines the buffer keeps (2000)
  Line      \* the formatted lines

ASSUME BufferAssumption == MaxSize \in Nat \ {0}

LogEntry == [id: Nat \ {0}, line: Line]
Buffers == [entries: Seq(LogEntry), nextID: Nat]

NewBuffer == [entries |-> <<>>, nextID |-> 0]

(* The last k elements of s, all of them when there are fewer. *)
Suffix(s, k) == IF Len(s) > k THEN SubSeq(s, Len(s) - k + 1, Len(s)) ELSE s

(* Mutant: the buffer is never trimmed. *)
Add_Untrimmed(b, x) ==
  [entries |-> Append(b.entries, [id |-> b.nextID + 1, line |-> x]),
   nextID  |-> b.nextID + 1]

Add(b, x) ==
  [entries |-> Suffix(Append(b.entries, [id |-> b.nextID + 1, line |-> x]), MaxSize),
   nextID  |-> b.nextID + 1]

(* The elements of s at the indices in I, in their order. *)
Picked(s, I) ==
  [k \in 1 .. Cardinality(I) |-> s[CHOOSE i \in I : Cardinality({j \in I : j <= i}) = k]]

(* Mutant: the line after the last one the reader has is skipped. *)
Since_Next(b, since) ==
  Picked(b.entries, {i \in DOMAIN b.entries : b.entries[i].id > since + 1})

Since(b, since) ==
  Picked(b.entries, {i \in DOMAIN b.entries : b.entries[i].id > since})

(* The buffer holds the newest lines, without a gap. *)
IsWindow(b) ==
  /\ Len(b.entries) = IF b.nextID < MaxSize THEN b.nextID ELSE MaxSize
  /\ \A i \in DOMAIN b.entries : b.entries[i].id = b.nextID - Len(b.entries) + i
=============================================================================
