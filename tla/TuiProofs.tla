----------------------------- MODULE TuiProofs -----------------------------
(***************************************************************************)
(* What the keys, the log tail and the layout of the interface do for every *)
(* size of the log buffer and of the terminal, every number of questions    *)
(* under way and every scenario; the types of its state.                    *)
(***************************************************************************)
EXTENDS TuiProps, LayoutProofs, FiniteSetTheorems, SequenceTheorems

-----------------------------------------------------------------------------
(* The log tail. *)

(* The types of the node's log and of what the tail holds of it. *)
TailTypeOK ==
  /\ buffer \in [entries: Seq(LogEntry), nextID: Nat]
  /\ boot \in Nat /\ lastLogID \in Nat /\ logs \in Seq(LogEntry)
  /\ fetch \in [1 .. MaxFetch -> {Free} \cup [state: {"asked"}, since: Nat]
                                   \cup [state: {"answered"}, entries: Seq(LogEntry)]]

(* Line id of the node's first life is shown or no longer to be had. *)
Settled(id) == Shown([id |-> id, line |-> 0]) \/ Overwritten(id)

Among(id, es) == \E j \in DOMAIN es : es[j] = [id |-> id, line |-> 0]

(* What holds until the node is restarted.  The lines up to the number that *)
(* the tail or one of its questions starts from are settled; those up to the*)
(* last one of an answer are settled too, or come with it.                  *)
FirstLife ==
  /\ \A i \in DOMAIN buffer.entries : buffer.entries[i].line = 0
  /\ \A id \in 1 .. lastLogID : Settled(id)
  /\ \A i \in 1 .. MaxFetch :
       fetch[i].state = "asked" => \A id \in 1 .. fetch[i].since : Settled(id)
  /\ \A i \in 1 .. MaxFetch :
       (fetch[i].state = "answered" /\ fetch[i].entries # <<>>)
         => \A id \in 1 .. fetch[i].entries[Len(fetch[i].entries)].id :
              Settled(id) \/ Among(id, fetch[i].entries)

TailInv == TailTypeOK /\ IsWindow(buffer) /\ (boot = 0 => FirstLife)

(* Suffix: the last k elements, in their order. *)
LEMMA SuffixProperties ==
  ASSUME NEW S, NEW s \in Seq(S), NEW k \in Nat \ {0}
  PROVE  /\ Suffix(s, k) \in Seq(S)
         /\ Len(Suffix(s, k)) = IF Len(s) > k THEN k ELSE Len(s)
         /\ \A i \in 1 .. Len(Suffix(s, k)) :
              Suffix(s, k)[i] = s[Len(s) - Len(Suffix(s, k)) + i]
<1>1. CASE Len(s) > k
  <2>1. /\ Len(s) - k + 1 \in Int /\ Len(s) \in Int
        /\ \A i \in Len(s) - k + 1 .. Len(s) : s[i] \in S
    BY <1>1, LenProperties, ElementOfSeq
  <2>2. /\ SubSeq(s, Len(s) - k + 1, Len(s)) \in Seq(S)
        /\ Len(SubSeq(s, Len(s) - k + 1, Len(s))) = k
        /\ \A i \in 1 .. k : SubSeq(s, Len(s) - k + 1, Len(s))[i] = s[Len(s) - k + i]
    BY <1>1, <2>1, SubSeqProperties, LenProperties
  <2> QED BY <1>1, <2>2 DEF Suffix
<1>2. CASE ~(Len(s) > k)
  BY <1>2, LenProperties DEF Suffix
<1> QED BY <1>1, <1>2

(* Add keeps the buffer the window on the newest lines that IsWindow says,  *)
(* and puts line x in it.                                                   *)
LEMMA AddProperties ==
  ASSUME NEW b \in [entries: Seq(LogEntry), nextID: Nat], IsWindow(b), NEW x \in Line
  PROVE  /\ Add(b, x) \in [entries: Seq(LogEntry), nextID: Nat]
         /\ IsWindow(Add(b, x)) /\ Add(b, x).nextID = b.nextID + 1
         /\ \A i \in DOMAIN Add(b, x).entries :
              \/ Add(b, x).entries[i].line = x
              \/ \E j \in DOMAIN b.entries : Add(b, x).entries[i] = b.entries[j]
<1> DEFINE n == b.nextID
           e == [id |-> n + 1, line |-> x]
           es == Append(b.entries, e)
           new == Suffix(es, MaxSize)
<1>1. n \in Nat /\ b.entries \in Seq(LogEntry) /\ e \in LogEntry /\ MaxSize \in Nat \ {0}
  BY BufferAssumption DEF LogEntry
<1>2. Len(b.entries) \in Nat /\ DOMAIN b.entries = 1 .. Len(b.entries)
  BY <1>1, LenProperties
<1>3. /\ es \in Seq(LogEntry) /\ Len(es) = Len(b.entries) + 1
      /\ \A i \in 1 .. Len(b.entries) : es[i] = b.entries[i]
      /\ es[Len(b.entries) + 1] = e
  BY <1>1, AppendProperties
<1> HIDE DEF es
<1>4. /\ new \in Seq(LogEntry)
      /\ Len(new) = IF Len(es) > MaxSize THEN MaxSize ELSE Len(es)
      /\ \A i \in 1 .. Len(new) : new[i] = es[Len(es) - Len(new) + i]
  BY <1>1, <1>3, SuffixProperties
<1> HIDE DEF new
<1>5. Len(new) \in Nat /\ DOMAIN new = 1 .. Len(new)
  BY <1>4, LenProperties
<1>6. Add(b, x) = [entries |-> new, nextID |-> n + 1]
  BY DEF Add, new, es
<1>7. \A i \in 1 .. Len(b.entries) + 1 : es[i].id = n - Len(b.entries) + i
  <2> TAKE i \in 1 .. Len(b.entries) + 1
  <2>1. CASE i \in 1 .. Len(b.entries)
    BY <1>2, <1>3, <2>1 DEF IsWindow
  <2>2. CASE i = Len(b.entries) + 1
    <3>1. es[i].id = n + 1
      BY <1>3, <2>2
    <3> QED BY <1>1, <1>2, <2>2, <3>1
  <2> QED BY <1>2, <2>1, <2>2
<1>8. Len(b.entries) = IF n < MaxSize THEN n ELSE MaxSize
  BY DEF IsWindow
<1>9. Len(new) = IF n + 1 < MaxSize THEN n + 1 ELSE MaxSize
  BY <1>1, <1>2, <1>3, <1>4, <1>8
<1>10. \A i \in 1 .. Len(new) : new[i].id = n + 1 - Len(new) + i
  <2> TAKE i \in 1 .. Len(new)
  <2>1. Len(es) - Len(new) + i \in 1 .. Len(b.entries) + 1
    BY <1>1, <1>2, <1>3, <1>4, <1>5
  <2>2. new[i].id = n - Len(b.entries) + (Len(es) - Len(new) + i)
    BY <1>4, <1>7, <2>1
  <2> QED BY <1>1, <1>2, <1>3, <1>5, <2>2
<1>11. IsWindow(Add(b, x))
  <2>1. Add(b, x).entries = new /\ Add(b, x).nextID = n + 1
    BY <1>6
  <2>2. Len(Add(b, x).entries)
          = IF Add(b, x).nextID < MaxSize THEN Add(b, x).nextID ELSE MaxSize
    BY <1>9, <2>1
  <2>3. \A i \in DOMAIN Add(b, x).entries :
          Add(b, x).entries[i].id = Add(b, x).nextID - Len(Add(b, x).entries) + i
    BY <1>5, <1>10, <2>1
  <2> QED BY <2>2, <2>3, Zenon DEF IsWindow
<1>12. \A i \in DOMAIN new :
         new[i].line = x \/ \E j \in DOMAIN b.entries : new[i] = b.entries[j]
  <2> SUFFICES ASSUME NEW i \in 1 .. Len(new)
               PROVE  new[i].line = x \/ \E j \in DOMAIN b.entries : new[i] = b.entries[j]
    BY <1>5
  <2>1. Len(es) - Len(new) + i \in 1 .. Len(b.entries) + 1
    BY <1>1, <1>2, <1>3, <1>4, <1>5
  <2>2. CASE Len(es) - Len(new) + i \in 1 .. Len(b.entries)
    BY <1>2, <1>3, <1>4, <1>5, <2>2
  <2>3. CASE Len(es) - Len(new) + i = Len(b.entries) + 1
    <3>1. new[i] = e
      BY <1>3, <1>4, <1>5, <2>3
    <3> QED BY <3>1
  <2> QED BY <1>2, <2>1, <2>2, <2>3
<1>13. Add(b, x) \in [entries: Seq(LogEntry), nextID: Nat]
  BY <1>1, <1>4, <1>6
<1> QED BY <1>6, <1>11, <1>12, <1>13

(* Picked: the elements from index a on, when those are what is picked.     *)
LEMMA PickedTail ==
  ASSUME NEW S, NEW s \in Seq(S), NEW a \in 1 .. Len(s) + 1
  PROVE  Picked(s, a .. Len(s)) = [k \in 1 .. Len(s) - a + 1 |-> s[a + k - 1]]
<1> DEFINE I == a .. Len(s)
<1>1. Len(s) \in Nat /\ a \in Int
  BY LenProperties
<1>2. Cardinality(I) = Len(s) - a + 1
  <2>1. Cardinality(a .. Len(s)) = IF a > Len(s) THEN 0 ELSE Len(s) - a + 1
    <3> DEFINE l == Len(s)
    <3>1. a \in Int /\ l \in Int
      BY <1>1
    <3> HIDE DEF l
    <3>2. Cardinality(a .. l) = IF a > l THEN 0 ELSE l - a + 1
      BY <3>1, FS_Interval
    <3> QED BY <3>2 DEF l
  <2> QED BY <1>1, <2>1
<1>3. \A i \in I : Cardinality({j \in I : j <= i}) = i - a + 1
  <2> TAKE i \in I
  <2>1. {j \in I : j <= i} = a .. i
    BY <1>1
  <2>2. i \in Int /\ a <= i
    BY <1>1
  <2>3. Cardinality(a .. i) = IF a > i THEN 0 ELSE i - a + 1
    BY <1>1, <2>2, FS_Interval
  <2>4. Cardinality(a .. i) = i - a + 1
    BY <1>1, <2>2, <2>3
  <2> QED BY <2>1, <2>4, Zenon
<1>4. \A k \in 1 .. Len(s) - a + 1 :
        (CHOOSE i \in I : Cardinality({j \in I : j <= i}) = k) = a + k - 1
  <2> TAKE k \in 1 .. Len(s) - a + 1
  <2>1. a + k - 1 \in I
    BY <1>1
  <2>2. Cardinality({j \in I : j <= a + k - 1}) = k
    <3>1. Cardinality({j \in I : j <= a + k - 1}) = (a + k - 1) - a + 1
      BY <1>3, <2>1
    <3> QED BY <1>1, <3>1
  <2>3. \A i \in I : Cardinality({j \in I : j <= i}) = k => i = a + k - 1
    BY <1>1, <1>3
  <2> HIDE DEF I
  <2> QED BY <2>1, <2>2, <2>3
<1> DEFINE Nth(k) == CHOOSE i \in I : Cardinality({j \in I : j <= i}) = k
<1>5. Picked(s, I) = [k \in 1 .. Len(s) - a + 1 |-> s[Nth(k)]]
  BY <1>2 DEF Picked
<1>6. \A k \in 1 .. Len(s) - a + 1 : Nth(k) = a + k - 1
  BY <1>4
<1> HIDE DEF Nth
<1>7. Picked(s, I) = [k \in 1 .. Len(s) - a + 1 |-> s[a + k - 1]]
  BY <1>5, <1>6
<1> QED BY <1>7

(* Since gives the lines of the window that are newer than the question     *)
(* says, all of them and no other.                                          *)
LEMMA SinceProperties ==
  ASSUME NEW b \in [entries: Seq(LogEntry), nextID: Nat], IsWindow(b), NEW since \in Nat
  PROVE  /\ Since(b, since) \in Seq(LogEntry)
         /\ \A k \in DOMAIN Since(b, since) :
              \E i \in DOMAIN b.entries : Since(b, since)[k] = b.entries[i]
         /\ \A i \in DOMAIN b.entries :
              b.entries[i].id > since
                => \E k \in DOMAIN Since(b, since) : Since(b, since)[k] = b.entries[i]
<1> DEFINE es == b.entries
           n == Len(es)
           older == b.nextID - n
           a == IF since < older THEN 1 ELSE IF since - older < n THEN since - older + 1 ELSE n + 1
<1>1. es \in Seq(LogEntry) /\ b.nextID \in Nat /\ n \in Nat /\ DOMAIN es = 1 .. n
  BY LenProperties
<1>2. \A i \in 1 .. n : es[i].id = older + i
  BY <1>1 DEF IsWindow
<1>3. a \in 1 .. n + 1
  BY <1>1
<1>4. {i \in DOMAIN es : es[i].id > since} = a .. n
  BY <1>1, <1>2
<1>5. Since(b, since) = [k \in 1 .. n - a + 1 |-> es[a + k - 1]]
  <2>1. Since(b, since) = Picked(es, a .. n)
    BY <1>4 DEF Since
  <2> HIDE DEF a, es
  <2> QED BY <1>1, <1>3, <2>1, PickedTail
<1> HIDE DEF a, es, older
<1>6. n - a + 1 \in Nat /\ \A k \in 1 .. n - a + 1 : a + k - 1 \in 1 .. n
  BY <1>1, <1>3
<1>7. \A k \in 1 .. n - a + 1 : es[a + k - 1] \in LogEntry
  BY <1>1, <1>6, ElementOfSeq
<1>8. Since(b, since) \in Seq(LogEntry) /\ DOMAIN Since(b, since) = 1 .. n - a + 1
  <2>1. [k \in 1 .. n - a + 1 |-> es[a + k - 1]] \in Seq(LogEntry)
    BY <1>6, <1>7, IsASeq
  <2> QED BY <1>5, <2>1
<1>9. \A i \in 1 .. n : es[i].id > since => i - a + 1 \in 1 .. n - a + 1
  BY <1>1, <1>3, <1>4
<1>10. \A i \in 1 .. n : es[i].id > since => Since(b, since)[i - a + 1] = es[i]
  <2> SUFFICES ASSUME NEW i \in 1 .. n, es[i].id > since
               PROVE  Since(b, since)[i - a + 1] = es[i]
    OBVIOUS
  <2>1. i - a + 1 \in 1 .. n - a + 1 /\ a + (i - a + 1) - 1 = i
    BY <1>1, <1>3, <1>9
  <2> QED BY <1>5, <2>1
<1> QED BY <1>1, <1>5, <1>6, <1>8, <1>9, <1>10 DEF es

(* The last line of an answer has a number. *)
LEMMA LastOfAnswer ==
  ASSUME NEW es \in Seq(LogEntry), es # <<>>
  PROVE  es[Len(es)] \in LogEntry /\ es[Len(es)].id \in Nat \ {0}
<1>1. Len(es) \in 1 .. Len(es)
  BY EmptySeq, LenProperties
<1>2. es[Len(es)] \in LogEntry
  BY <1>1, ElementOfSeq
<1> QED BY <1>2 DEF LogEntry

(* The three kinds of slot. *)
LEMMA FetchTypes ==
  ASSUME TailTypeOK, NEW i \in 1 .. MaxFetch
  PROVE  /\ fetch[i].state = "asked" => fetch[i].since \in Nat
         /\ fetch[i].state = "answered" => fetch[i].entries \in Seq(LogEntry)
  BY DEF TailTypeOK, Free

(* Nothing but the tail, the log and a restart touches what TailInv speaks  *)
(* of.                                                                      *)
LEMMA TailUntouched ==
  ASSUME TailInv, UNCHANGED <<buffer, boot, logs, lastLogID, fetch>>
  PROVE  TailInv'
<1>1. TailTypeOK' /\ IsWindow(buffer)'
  BY DEF TailInv, TailTypeOK
<1>2. \A id : Settled(id)' <=> Settled(id)
  BY DEF Settled, Shown, Overwritten
<1>3. FirstLife => FirstLife'
  BY <1>2 DEF FirstLife, Among
<1> QED BY <1>1, <1>3 DEF TailInv

(* A settled line stays settled as long as the tail only grows and so do    *)
(* the numbers of the buffer.                                               *)
LEMMA SettledKept ==
  ASSUME TailTypeOK, TailTypeOK', NEW es \in Seq(LogEntry),
         logs' = logs \/ logs' = logs \o es, buffer'.nextID >= buffer.nextID
  PROVE  /\ \A id \in Nat : Settled(id) => Settled(id)'
         /\ logs' = logs \o es => \A id \in Nat : Among(id, es) => Settled(id)'
<1> USE DEF TailTypeOK
<1>1. logs \in Seq(LogEntry) /\ buffer.nextID \in Nat /\ buffer'.nextID \in Nat /\ MaxSize \in Nat
  BY BufferAssumption
<1>2. ASSUME NEW id \in Nat, Overwritten(id) PROVE Overwritten(id)'
  BY <1>1, <1>2 DEF Overwritten
<1>3. /\ Len(logs) \in Nat /\ DOMAIN logs = 1 .. Len(logs)
      /\ Len(es) \in Nat /\ DOMAIN es = 1 .. Len(es)
  BY <1>1, LenProperties
<1>4. ASSUME logs' = logs \o es
      PROVE  /\ DOMAIN logs' = 1 .. Len(logs) + Len(es)
             /\ \A k \in 1 .. Len(logs) : logs'[k] = logs[k]
             /\ \A k \in 1 .. Len(es) : logs'[Len(logs) + k] = es[k]
  <2>1. /\ logs' \in Seq(LogEntry) /\ Len(logs') = Len(logs) + Len(es)
        /\ \A i \in 1 .. Len(logs) + Len(es) :
             logs'[i] = IF i <= Len(logs) THEN logs[i] ELSE es[i - Len(logs)]
    BY <1>1, <1>4, ConcatProperties
  <2>2. DOMAIN logs' = 1 .. Len(logs) + Len(es)
    BY <2>1, LenProperties
  <2> QED BY <1>3, <2>1, <2>2
<1>5. ASSUME NEW e, Shown(e) PROVE Shown(e)'
  <2>1. PICK k \in 1 .. Len(logs) : logs[k] = e
    BY <1>3, <1>5 DEF Shown
  <2>2. k \in DOMAIN logs' /\ logs'[k] = e
    BY <1>3, <1>4, <2>1
  <2> QED BY <2>2 DEF Shown
<1>6. ASSUME logs' = logs \o es, NEW id \in Nat, Among(id, es)
      PROVE  Settled(id)'
  <2>1. PICK k \in 1 .. Len(es) : es[k] = [id |-> id, line |-> 0]
    BY <1>3, <1>6 DEF Among
  <2>2. Len(logs) + k \in DOMAIN logs' /\ logs'[Len(logs) + k] = [id |-> id, line |-> 0]
    BY <1>3, <1>4, <1>6, <2>1
  <2> QED BY <2>2 DEF Settled, Shown
<1> QED BY <1>2, <1>5, <1>6 DEF Settled

(* A line of the node's first life that has been written and is not yet     *)
(* overwritten is in the buffer.                                            *)
LEMMA BufferHolds ==
  ASSUME TailInv, boot = 0, NEW id \in 1 .. buffer.nextID, ~Overwritten(id)
  PROVE  \E i \in DOMAIN buffer.entries : buffer.entries[i] = [id |-> id, line |-> 0]
<1> DEFINE es == buffer.entries
           i == id - buffer.nextID + Len(es)
<1>1. /\ es \in Seq(LogEntry) /\ Len(es) \in Nat /\ DOMAIN es = 1 .. Len(es)
      /\ buffer.nextID \in Nat /\ MaxSize \in Nat \ {0}
  BY LenProperties, BufferAssumption DEF TailInv, TailTypeOK
<1>2. Len(es) = IF buffer.nextID < MaxSize THEN buffer.nextID ELSE MaxSize
  BY DEF TailInv, IsWindow
<1>3. i \in 1 .. Len(es)
  <2>1. id \in Nat /\ 0 < id /\ id <= buffer.nextID /\ id > buffer.nextID - MaxSize
    BY <1>1 DEF Overwritten
  <2>2. PICK k \in Nat, last \in Nat, size \in Nat :
          k = Len(es) /\ last = buffer.nextID /\ size = MaxSize
    BY <1>1
  <2>3. k = IF last < size THEN last ELSE size
    BY <1>2, <2>2
  <2>4. id - last + k \in 1 .. k
    BY <2>1, <2>2, <2>3
  <2> QED BY <2>2, <2>4
<1>4. es[i].id = buffer.nextID - Len(es) + i
  BY <1>1, <1>3 DEF TailInv, IsWindow
<1>5. es[i].id = id
  BY <1>1, <1>4
<1>6. es[i].line = 0
  BY <1>1, <1>3 DEF TailInv, FirstLife
<1>7. es[i] \in LogEntry
  BY <1>1, <1>3, ElementOfSeq
<1> HIDE DEF es, i
<1>8. es[i] = [id |-> id, line |-> 0]
  BY <1>5, <1>6, <1>7 DEF LogEntry
<1> QED BY <1>1, <1>3, <1>8 DEF es

(* The first question starts from nothing. *)
LEMMA TailInit == Init => TailInv
<1> SUFFICES ASSUME Init PROVE TailInv
  OBVIOUS
<1> USE DEF Init, NewBuffer
<1>1. TailTypeOK
  BY TuiAssumption DEF TailTypeOK, Asked, Free
<1>2. IsWindow(buffer)
  BY BufferAssumption DEF IsWindow
<1>3. FirstLife
  <2>1. lastLogID = 0 /\ buffer.entries = <<>>
    OBVIOUS
  <2>2. \A i \in 1 .. MaxFetch : fetch[i] \in {Asked(0), Free}
    OBVIOUS
  <2>3. /\ Asked(0).state = "asked" /\ Asked(0).since = 0 /\ Free.state = "free"
    BY DEF Asked, Free
  <2> QED BY <2>1, <2>2, <2>3 DEF FirstLife
<1> QED BY <1>1, <1>2, <1>3 DEF TailInv

(* A question starts from where the tail is. *)
LEMMA LogsTickKeeps == ASSUME TailInv, LogsTick PROVE TailInv'
<1>1. PICK i \in 1 .. MaxFetch :
        fetch[i] = Free /\ fetch' = [fetch EXCEPT ![i] = Asked(lastLogID)]
  BY DEF LogsTick
<1>2. UNCHANGED <<buffer, boot, logs, lastLogID>>
  BY DEF LogsTick, tail
<1>3. TailTypeOK'
  BY <1>1, <1>2 DEF TailInv, TailTypeOK, Asked
<1>4. IsWindow(buffer)'
  BY <1>2 DEF TailInv, IsWindow
<1>5. boot' = 0 => FirstLife'
  <2> SUFFICES ASSUME boot = 0 PROVE FirstLife'
    BY <1>2
  <2>1. FirstLife
    BY DEF TailInv
  <2>2. \A id : Settled(id)' <=> Settled(id)
    BY <1>2 DEF Settled, Shown, Overwritten
  <2>3. \A k \in 1 .. MaxFetch : fetch'[k] = IF k = i THEN Asked(lastLogID) ELSE fetch[k]
    BY <1>1 DEF TailInv, TailTypeOK
  <2>4. Asked(lastLogID).state = "asked" /\ Asked(lastLogID).since = lastLogID
    BY DEF Asked
  <2>5. (\A k \in 1 .. MaxFetch :
           fetch[k].state = "asked" => \A id \in 1 .. fetch[k].since : Settled(id))'
    BY <2>1, <2>2, <2>3, <2>4 DEF FirstLife
  <2>6. (\A k \in 1 .. MaxFetch :
           (fetch[k].state = "answered" /\ fetch[k].entries # <<>>)
             => \A id \in 1 .. fetch[k].entries[Len(fetch[k].entries)].id :
                  Settled(id) \/ Among(id, fetch[k].entries))'
    <3>1. \A id, es : Among(id, es)' <=> Among(id, es)
      BY DEF Among
    <3> QED BY <2>1, <2>2, <2>3, <2>4, <3>1 DEF FirstLife
  <2> QED BY <1>2, <2>1, <2>2, <2>5, <2>6 DEF FirstLife
<1> QED BY <1>3, <1>4, <1>5 DEF TailInv

(* An answer that holds every line after a settled number that the buffer   *)
(* has is as good as FirstLife wants it, and so is an empty one.            *)
LEMMA AnswerKeeps ==
  ASSUME TailInv, NEW i \in 1 .. MaxFetch, NEW es \in Seq(LogEntry),
         fetch' = [fetch EXCEPT ![i] = Answered(es)],
         UNCHANGED <<buffer, boot, logs, lastLogID>>,
         boot = 0 /\ es # <<>>
           => \A id \in 1 .. es[Len(es)].id : Settled(id) \/ Among(id, es)
  PROVE  TailInv'
<1>1. TailTypeOK'
  BY DEF TailInv, TailTypeOK, Answered
<1>2. IsWindow(buffer)'
  BY DEF TailInv, IsWindow
<1>3. boot' = 0 => FirstLife'
  <2> SUFFICES ASSUME boot = 0 PROVE FirstLife'
    OBVIOUS
  <2>1. FirstLife
    BY DEF TailInv
  <2>2. \A id : Settled(id)' <=> Settled(id)
    BY DEF Settled, Shown, Overwritten
  <2>3. \A k \in 1 .. MaxFetch : fetch'[k] = IF k = i THEN Answered(es) ELSE fetch[k]
    BY DEF TailInv, TailTypeOK
  <2>4. Answered(es).state = "answered" /\ Answered(es).entries = es
    BY DEF Answered
  <2>5. (\A k \in 1 .. MaxFetch :
           fetch[k].state = "asked" => \A id \in 1 .. fetch[k].since : Settled(id))'
    BY <2>1, <2>2, <2>3, <2>4 DEF FirstLife
  <2>6. (\A k \in 1 .. MaxFetch :
           (fetch[k].state = "answered" /\ fetch[k].entries # <<>>)
             => \A id \in 1 .. fetch[k].entries[Len(fetch[k].entries)].id :
                  Settled(id) \/ Among(id, fetch[k].entries))'
    <3>1. \A id, s : Among(id, s)' <=> Among(id, s)
      BY DEF Among
    <3> SUFFICES ASSUME NEW k \in 1 .. MaxFetch,
                        fetch'[k].state = "answered", fetch'[k].entries # <<>>
                 PROVE  \A id \in 1 .. fetch'[k].entries[Len(fetch'[k].entries)].id :
                          Settled(id) \/ Among(id, fetch'[k].entries)
      BY <2>2, <3>1
    <3>2. CASE k = i
      BY <2>3, <2>4, <3>2
    <3>3. CASE k # i
      <4>1. fetch'[k] = fetch[k]
        BY <2>3, <3>3
      <4> QED BY <2>1, <4>1 DEF FirstLife
    <3> QED BY <3>2, <3>3
  <2> QED BY <2>1, <2>2, <2>5, <2>6 DEF FirstLife
<1> QED BY <1>1, <1>2, <1>3 DEF TailInv

(* The node answers with all it has after the number it is asked about.     *)
LEMMA ServeLogsKeeps ==
  ASSUME TailInv, NEW i \in 1 .. MaxFetch, ServeLogs(i)
  PROVE  TailInv'
<1> DEFINE since == fetch[i].since
           es == Since(buffer, since)
<1>1. /\ fetch[i].state = "asked" /\ fetch' = [fetch EXCEPT ![i] = Answered(es)]
      /\ UNCHANGED <<buffer, boot, logs, lastLogID>>
  BY DEF ServeLogs
<1>2. since \in Nat
  BY <1>1, FetchTypes DEF TailInv
<1>3. /\ es \in Seq(LogEntry)
      /\ \A k \in DOMAIN es : \E j \in DOMAIN buffer.entries : es[k] = buffer.entries[j]
      /\ \A j \in DOMAIN buffer.entries :
           buffer.entries[j].id > since => \E k \in DOMAIN es : es[k] = buffer.entries[j]
  BY <1>2, SinceProperties DEF TailInv, TailTypeOK
<1> HIDE DEF es
<1>4. ASSUME boot = 0, es # <<>>, NEW id \in 1 .. es[Len(es)].id
      PROVE  Settled(id) \/ Among(id, es)
  <2>1. Len(es) \in DOMAIN es
    BY <1>3, <1>4, EmptySeq, LenProperties
  <2>2. PICK j \in DOMAIN buffer.entries : es[Len(es)] = buffer.entries[j]
    BY <1>3, <2>1
  <2>3. /\ Len(buffer.entries) \in Nat /\ DOMAIN buffer.entries = 1 .. Len(buffer.entries)
        /\ buffer.nextID \in Nat
    BY LenProperties DEF TailInv, TailTypeOK
  <2>4. buffer.entries[j].id = buffer.nextID - Len(buffer.entries) + j
    BY DEF TailInv, IsWindow
  <2>5. id \in 1 .. buffer.nextID
    BY <1>4, <2>2, <2>3, <2>4
  <2>6. CASE id <= since
    BY <1>1, <1>2, <1>4, <2>5, <2>6 DEF TailInv, FirstLife
  <2>7. CASE id > since /\ ~Overwritten(id)
    <3>1. PICK l \in DOMAIN buffer.entries : buffer.entries[l] = [id |-> id, line |-> 0]
      BY <1>4, <2>5, <2>7, BufferHolds
    <3>2. buffer.entries[l].id > since
      BY <2>7, <3>1
    <3> QED BY <1>3, <3>1, <3>2 DEF Among
  <2> QED BY <1>2, <2>5, <2>6, <2>7 DEF Settled
<1> QED BY <1>1, <1>3, <1>4, AnswerKeeps

(* A question that fails is answered with nothing. *)
LEMMA FetchFailsKeeps ==
  ASSUME TailInv, NEW i \in 1 .. MaxFetch, FetchFails(i)
  PROVE  TailInv'
<1>1. <<>> \in Seq(LogEntry)
  BY EmptySeq
<1> QED BY <1>1, AnswerKeeps DEF FetchFails

(* The lines of the answer are shown with the number that is kept. *)
LEMMA LogsFetchedKeeps ==
  ASSUME TailInv, NEW i \in 1 .. MaxFetch, LogsFetched(i)
  PROVE  TailInv'
<1> DEFINE es == fetch[i].entries
<1>1. /\ fetch[i].state = "answered" /\ logs' = logs \o es
      /\ lastLogID' = IF es = <<>> THEN lastLogID ELSE es[Len(es)].id
      /\ fetch' = [fetch EXCEPT ![i] = Free] /\ UNCHANGED <<buffer, boot>>
  BY DEF LogsFetched
<1>2. es \in Seq(LogEntry)
  BY <1>1, FetchTypes DEF TailInv
<1> HIDE DEF es
<1>3. TailTypeOK'
  <2>1. logs' \in Seq(LogEntry)
    BY <1>1, <1>2, ConcatProperties DEF TailInv, TailTypeOK
  <2>2. lastLogID' \in Nat
    BY <1>1, <1>2, LastOfAnswer DEF TailInv, TailTypeOK
  <2> QED BY <1>1, <2>1, <2>2 DEF TailInv, TailTypeOK
<1>4. IsWindow(buffer)'
  BY <1>1 DEF TailInv, IsWindow
<1>5. boot' = 0 => FirstLife'
  <2> SUFFICES ASSUME boot = 0 PROVE FirstLife'
    BY <1>1
  <2>1. FirstLife
    BY DEF TailInv
  <2>2. buffer'.nextID >= buffer.nextID
    BY <1>1 DEF TailInv, TailTypeOK
  <2>3. /\ \A id \in Nat : Settled(id) => Settled(id)'
        /\ \A id \in Nat : Among(id, es) => Settled(id)'
    BY <1>1, <1>2, <1>3, <2>2, SettledKept DEF TailInv
  <2>4. \A k \in 1 .. MaxFetch : fetch'[k] = IF k = i THEN Free ELSE fetch[k]
    BY <1>1 DEF TailInv, TailTypeOK
  <2>5. (\A id \in 1 .. lastLogID : Settled(id))'
    <3> SUFFICES ASSUME NEW id \in 1 .. lastLogID' PROVE Settled(id)'
      OBVIOUS
    <3>1. CASE es = <<>>
      BY <1>1, <2>1, <2>3, <3>1 DEF FirstLife
    <3>2. CASE es # <<>>
      <4>1. id \in 1 .. es[Len(es)].id /\ id \in Nat
        BY <1>1, <3>2
      <4>2. Settled(id) \/ Among(id, es)
        BY <1>1, <2>1, <3>2, <4>1 DEF FirstLife, es
      <4> QED BY <2>3, <4>1, <4>2
    <3> QED BY <3>1, <3>2
  <2>6. (\A k \in 1 .. MaxFetch :
           fetch[k].state = "asked" => \A id \in 1 .. fetch[k].since : Settled(id))'
    <3> SUFFICES ASSUME NEW k \in 1 .. MaxFetch, fetch'[k].state = "asked",
                        NEW id \in 1 .. fetch'[k].since
                 PROVE  Settled(id)'
      OBVIOUS
    <3>1. fetch'[k] = fetch[k]
      BY <2>4 DEF Free
    <3> QED BY <2>1, <2>3, <3>1 DEF FirstLife
  <2>7. (\A k \in 1 .. MaxFetch :
           (fetch[k].state = "answered" /\ fetch[k].entries # <<>>)
             => \A id \in 1 .. fetch[k].entries[Len(fetch[k].entries)].id :
                  Settled(id) \/ Among(id, fetch[k].entries))'
    <3>1. \A id, s : Among(id, s)' <=> Among(id, s)
      BY DEF Among
    <3> SUFFICES ASSUME NEW k \in 1 .. MaxFetch,
                        fetch'[k].state = "answered", fetch'[k].entries # <<>>,
                        NEW id \in 1 .. fetch'[k].entries[Len(fetch'[k].entries)].id
                 PROVE  Settled(id)' \/ Among(id, fetch'[k].entries)
      BY <3>1
    <3>2. fetch'[k] = fetch[k]
      BY <2>4 DEF Free
    <3>3. Settled(id) \/ Among(id, fetch[k].entries)
      BY <2>1, <3>2 DEF FirstLife
    <3> QED BY <2>3, <3>2, <3>3
  <2> QED BY <1>1, <2>1, <2>5, <2>6, <2>7 DEF FirstLife
<1> QED BY <1>3, <1>4, <1>5 DEF TailInv

(* The lives of the node that are still to come are among those whose lines *)
(* the log may hold.                                                        *)
LifeInv ==
  /\ left \in [Budget -> Nat] /\ boot \in Nat
  /\ 0 .. boot + left["restart"] \subseteq Line

LEMMA LifeInit == Init => LifeInv
<1> SUFFICES ASSUME Init PROVE LifeInv
  OBVIOUS
<1>1. PICK s \in Scenarios : left = s.events
  BY DEF Init
<1>2. left \in [Budget -> Nat] /\ 0 .. left["restart"] \subseteq Line /\ boot = 0
  BY <1>1, TuiAssumption DEF Init
<1>3. left["restart"] \in Nat
  BY <1>2 DEF Budget
<1> QED BY <1>2, <1>3 DEF LifeInv

(* Only a restart uses one up. *)
LEMMA LifeStep == ASSUME LifeInv, [Next]_vars PROVE LifeInv'
<1>1. CASE Restart
  <2>1. left' = [left EXCEPT !["restart"] = @ - 1] /\ left["restart"] > 0 /\ boot' = boot + 1
    BY <1>1 DEF Restart, Spend
  <2>2. left["restart"] \in Nat /\ "restart" \in Budget
    BY DEF LifeInv, Budget
  <2>3. left' \in [Budget -> Nat] /\ left'["restart"] = left["restart"] - 1
    BY <2>1, <2>2 DEF LifeInv
  <2>4. boot' + left'["restart"] = boot + left["restart"]
    BY <2>1, <2>2, <2>3 DEF LifeInv
  <2> QED BY <2>1, <2>3, <2>4 DEF LifeInv
<1>2. CASE ~Restart
  <2>1. boot' = boot
    BY <1>2 DEF Next, vars, Key, Tab, ShiftTab, Digit, Text, EnterField, PressSend, Esc, CtrlC,
                Rest, LogsTick, ServeLogs, FetchFails, LogsFetched, Resize, TablesRefresh,
                Learn, LogLine
  <2>2. left' = left \/ \E e \in Budget \ {"restart"} : Spend(e)
    BY <1>2 DEF Next, vars, Key, Tab, ShiftTab, Digit, Text, EnterField, PressSend, Esc, CtrlC,
                LogsTick, ServeLogs, FetchFails, LogsFetched, Resize, TablesRefresh,
                Learn, LogLine, Budget
  <2>3. CASE left' = left
    BY <2>1, <2>3 DEF LifeInv
  <2>4. ASSUME NEW e \in Budget \ {"restart"}, Spend(e) PROVE LifeInv'
    <3>1. left[e] \in Nat /\ left[e] > 0 /\ left' = [left EXCEPT ![e] = @ - 1]
      BY <2>4 DEF Spend, LifeInv
    <3>2. left' \in [Budget -> Nat] /\ left'["restart"] = left["restart"]
      BY <3>1 DEF LifeInv, Budget
    <3> QED BY <2>1, <3>2 DEF LifeInv
  <2> QED BY <2>2, <2>3, <2>4
<1> QED BY <1>1, <1>2

(* A new line may overwrite one, which is then settled. *)
LEMMA LogLineKeeps == ASSUME TailInv, LifeInv, LogLine PROVE TailInv'
<1>1. buffer' = Add(buffer, boot) /\ UNCHANGED <<boot, logs, lastLogID, fetch>>
  BY DEF LogLine, tail
<1>0. buffer \in [entries: Seq(LogEntry), nextID: Nat] /\ IsWindow(buffer) /\ boot \in Line
  <2>1. boot \in 0 .. boot + left["restart"]
    BY DEF LifeInv, Budget
  <2> QED BY <2>1 DEF TailInv, TailTypeOK, LifeInv
<1>2. /\ buffer' \in [entries: Seq(LogEntry), nextID: Nat]
      /\ IsWindow(buffer') /\ buffer'.nextID = buffer.nextID + 1
      /\ \A i \in DOMAIN buffer'.entries :
           \/ buffer'.entries[i].line = boot
           \/ \E j \in DOMAIN buffer.entries : buffer'.entries[i] = buffer.entries[j]
  BY <1>0, <1>1, AddProperties
<1>3. TailTypeOK'
  BY <1>1, <1>2 DEF TailInv, TailTypeOK
<1>4. boot' = 0 => FirstLife'
  <2> SUFFICES ASSUME boot = 0 PROVE FirstLife'
    BY <1>1
  <2>1. FirstLife
    BY DEF TailInv
  <2>2. buffer'.nextID >= buffer.nextID /\ <<>> \in Seq(LogEntry)
    BY <1>2, EmptySeq DEF TailInv, TailTypeOK
  <2>3. \A id \in Nat : Settled(id) => Settled(id)'
    BY <1>1, <1>3, <2>2, SettledKept DEF TailInv
  <2>4. \A id, s : Among(id, s)' <=> Among(id, s)
    BY DEF Among
  <2>5. (\A i \in DOMAIN buffer.entries : buffer.entries[i].line = 0)'
    BY <1>2, <2>1 DEF FirstLife
  <2>6. (\A id \in 1 .. lastLogID : Settled(id))'
    BY <1>1, <2>1, <2>3 DEF FirstLife
  <2>7. (\A k \in 1 .. MaxFetch :
           fetch[k].state = "asked" => \A id \in 1 .. fetch[k].since : Settled(id))'
    BY <1>1, <2>1, <2>3 DEF FirstLife
  <2>8. (\A k \in 1 .. MaxFetch :
           (fetch[k].state = "answered" /\ fetch[k].entries # <<>>)
             => \A id \in 1 .. fetch[k].entries[Len(fetch[k].entries)].id :
                  Settled(id) \/ Among(id, fetch[k].entries))'
    BY <1>1, <2>1, <2>3, <2>4 DEF FirstLife
  <2> QED BY <2>5, <2>6, <2>7, <2>8 DEF FirstLife
<1> QED BY <1>2, <1>3, <1>4 DEF TailInv

(* After a restart the buffer is empty, and the first life is over. *)
LEMMA RestartKeeps == ASSUME TailInv, Restart PROVE TailInv'
<1>1. /\ buffer' = NewBuffer /\ boot' = boot + 1
      /\ UNCHANGED <<logs, lastLogID, fetch>>
  BY DEF Restart, tail
<1>2. TailTypeOK' /\ boot' # 0
  BY <1>1, EmptySeq DEF TailInv, TailTypeOK, NewBuffer
<1>3. IsWindow(buffer')
  BY <1>1, BufferAssumption, EmptySeq DEF IsWindow, NewBuffer
<1> QED BY <1>2, <1>3 DEF TailInv

(* Every step keeps the invariant of the tail. *)
LEMMA TailStep == ASSUME TailInv, LifeInv, [Next]_vars PROVE TailInv'
<1> USE DEF tail, Rest, vars
<1>1. CASE LogsTick
  BY <1>1, LogsTickKeeps
<1>2. CASE \E i \in 1 .. MaxFetch : ServeLogs(i) \/ FetchFails(i) \/ LogsFetched(i)
  BY <1>2, ServeLogsKeeps, FetchFailsKeeps, LogsFetchedKeeps
<1>3. CASE Key
  <2>1. UNCHANGED <<buffer, boot, logs, lastLogID, fetch>>
    BY <1>3 DEF Key, Tab, ShiftTab, Digit, Text, EnterField, PressSend, Esc, CtrlC
  <2> QED BY <2>1, TailUntouched
<1>4. CASE \E size \in sizes : Resize(size)
  BY <1>4, TailUntouched DEF Resize
<1>5. CASE TablesRefresh \/ Learn
  BY <1>5, TailUntouched DEF TablesRefresh, Learn
<1>6. CASE LogLine
  BY <1>6, LogLineKeeps
<1>7. CASE Restart
  BY <1>7, RestartKeeps
<1>8. CASE UNCHANGED vars
  BY <1>8, TailUntouched
<1> QED BY <1>1, <1>2, <1>3, <1>4, <1>5, <1>6, <1>7, <1>8 DEF Next

(* While the node lives the tail skips no line the buffer still has, however*)
(* the answers of overlapping questions overtake each other: Buffer.Since   *)
(* and the logsFetchedMsg case of Update, tui.go:191.                       *)
THEOREM NoGapHolds == Spec => []NoGap
<1>1. TailInv => NoGap
  BY DEF TailInv, FirstLife, NoGap, Settled
<1> QED BY <1>1, TailInit, TailStep, LifeInit, LifeStep, PTL DEF Spec

-----------------------------------------------------------------------------
(* The keys. *)

(* What the focus and the payload field can be. *)
FormInv ==
  /\ focused \in {Sections[i] : i \in DOMAIN Sections}
  /\ KeysFollowFocus
  /\ draft \in [text: BOOLEAN, newline: BOOLEAN]

(* The order of the sections is a cycle. *)
LEMMA SectionsCycle ==
  ASSUME NEW s \in {Sections[i] : i \in DOMAIN Sections}
  PROVE  /\ NextSection(s) \in {Sections[i] : i \in DOMAIN Sections}
         /\ PrevSection(s) \in {Sections[i] : i \in DOMAIN Sections}
<1>1. DOMAIN Sections = 1 .. 6 /\ Len(Sections) = 6
  BY DEF Sections
<1>2. Index(s) \in 1 .. 6
  BY <1>1 DEF Index
<1>3. (Index(s) % 6) + 1 \in 1 .. 6 /\ ((Index(s) + 6 - 2) % 6) + 1 \in 1 .. 6
  BY <1>2
<1> QED BY <1>1, <1>3 DEF NextSection, PrevSection

(* What a key that is handed to a field does to the payload. *)
LEMMA TypeEffect ==
  ASSUME draft \in [text: BOOLEAN, newline: BOOLEAN], NEW k, Type(k)
  PROVE  /\ draft' \in [text: BOOLEAN, newline: BOOLEAN]
         /\ draft'.text = draft.text \/ draft'.text = TRUE
            \/ (k = "text" /\ "payload" \in keys')
<1>1. CASE draft' = NoDraft /\ "payload" \in keys' /\ k = "text"
  <2>1. NoDraft \in [text: BOOLEAN, newline: BOOLEAN]
    BY DEF NoDraft
  <2> QED BY <1>1, <2>1
<1>2. CASE draft' = [draft EXCEPT !.text = TRUE]
  BY <1>2
<1>3. CASE draft' = [draft EXCEPT !.newline = TRUE]
  BY <1>3
<1>4. CASE draft' = draft
  BY <1>4
<1> QED BY <1>1, <1>2, <1>3, <1>4 DEF Type

(* What the button does to the payload. *)
LEMMA PressSendEffect ==
  ASSUME PressSend
  PROVE  /\ UNCHANGED <<focused, keys>>
         /\ draft' = draft \/ (draft' = NoDraft /\ taken' = taken + 1)
  BY Zenon DEF PressSend

(* Every key leaves the form as FormInv says. *)
LEMMA KeyKeepsForm == ASSUME FormInv, Key PROVE FormInv'
<1> USE DEF FormInv, KeysFollowFocus
<1>1. \A k : Type(k) => draft' \in [text: BOOLEAN, newline: BOOLEAN]
  BY TypeEffect
<1>2. CASE Tab \/ ShiftTab
  BY <1>1, <1>2, SectionsCycle DEF Tab, ShiftTab, MoveFocus
<1>3. ASSUME NEW d \in 1 .. 4, Digit(d) PROVE FormInv'
  <2>1. <<"node", "logs", "neighbours", "routes">>[d]
          \in {"node", "logs", "neighbours", "routes"}
    BY <1>3
  <2>2. {"node", "logs", "neighbours", "routes"} \subseteq {Sections[i] : i \in DOMAIN Sections}
    BY DEF Sections
  <2> QED BY <1>1, <1>3, <2>1, <2>2 DEF Digit, MoveFocus
<1>4. CASE Text
  BY <1>1, <1>4 DEF Text
<1>5. CASE EnterField
  BY <1>1, <1>5, SectionsCycle DEF EnterField
<1>6. CASE PressSend
  <2>1. NoDraft \in [text: BOOLEAN, newline: BOOLEAN]
    BY DEF NoDraft
  <2> QED BY <1>6, <2>1, PressSendEffect
<1>7. CASE Esc \/ CtrlC
  BY <1>7 DEF Esc, CtrlC
<1> QED BY <1>2, <1>3, <1>4, <1>5, <1>6, <1>7 DEF Key

(* So does every step. *)
LEMMA FormStep == ASSUME FormInv, [Next]_vars PROVE FormInv'
<1>1. CASE Key
  BY <1>1, KeyKeepsForm
<1>2. CASE ~Key
  <2>1. UNCHANGED form
    BY <1>2 DEF Next, vars, LogsTick, ServeLogs, FetchFails, LogsFetched, Resize,
                TablesRefresh, Learn, LogLine, Restart
  <2> QED BY <2>1 DEF FormInv, KeysFollowFocus, form
<1> QED BY <1>1, <1>2

(* The interface starts with the receiver field focused. *)
LEMMA FormInit == Init => FormInv
<1>1. Sections[1] = "node" /\ 1 \in DOMAIN Sections
  BY DEF Sections
<1> QED BY <1>1 DEF Init, FormInv, KeysFollowFocus, NoDraft

(* The keyboard goes to no other widget than the section that is drawn as   *)
(* focused: blurCurrent, applyFocus and the Enter and Esc handlers together.*)
THEOREM KeysFollowFocusHolds == Spec => []KeysFollowFocus
<1>1. FormInv => KeysFollowFocus
  BY DEF FormInv
<1> QED BY <1>1, FormInit, FormStep, PTL DEF Spec

(* The payload field loses its text only by the user's hand or because the  *)
(* node has taken the message: processEnterPress keeps the draft in every   *)
(* error return.                                                            *)
THEOREM DraftKeptHolds == Spec => DraftKept
<1>1. ASSUME FormInv, [Next]_vars
      PROVE  [(draft.text /\ ~draft'.text) => (taken' = taken + 1 \/ "payload" \in keys)]_vars
  <2> SUFFICES ASSUME draft.text, ~draft'.text
               PROVE  taken' = taken + 1 \/ "payload" \in keys
    OBVIOUS
  <2> USE DEF FormInv
  <2>1. draft' # draft
    OBVIOUS
  <2>2. CASE Key
    <3>1. \A k : Type(k) => k = "text" /\ "payload" \in keys'
      BY <1>1, TypeEffect
    <3>2. CASE Text
      BY <3>1, <3>2 DEF Text
    <3>3. CASE PressSend
      BY <2>1, <3>3, PressSendEffect
    <3>4. CASE Tab \/ ShiftTab \/ (\E d \in 1 .. 4 : Digit(d)) \/ EnterField
      BY <3>1, <3>4 DEF Tab, ShiftTab, Digit, EnterField
    <3>5. CASE Esc \/ CtrlC
      BY <2>1, <3>5 DEF Esc, CtrlC
    <3> QED BY <2>2, <3>2, <3>3, <3>4, <3>5 DEF Key
  <2>3. CASE ~Key
    <3>1. UNCHANGED form
      BY <1>1, <2>3 DEF Next, vars, LogsTick, ServeLogs, FetchFails, LogsFetched, Resize,
                  TablesRefresh, Learn, LogLine, Restart
    <3> QED BY <2>1, <3>1 DEF form
  <2> QED BY <2>2, <2>3
<1> QED BY <1>1, FormInit, FormStep, PTL DEF Spec, DraftKept

-----------------------------------------------------------------------------
(* The window. *)

(* The layout is typed and, unless only a notice is drawn, it is what its   *)
(* own width and height give.                                               *)
WindowInv ==
  /\ sizes \subseteq Nat \X Nat /\ Typed(layout)
  /\ layout.mode = PickMode(layout.width, layout.height)
  /\ layout.mode # "tiny" => Fitted(layout, layout.width, layout.height)

(* Whatever the last layout was, a size leads to one as WindowInv says. *)
LEMMA UpdateKeeps ==
  ASSUME NEW m, Typed(m), NEW w \in Nat, NEW h \in Nat
  PROVE  LET l == UpdateSizes(m, <<w, h>>)
         IN  /\ Typed(l) /\ l.width = w /\ l.height = h /\ l.mode = PickMode(w, h)
             /\ l.mode # "tiny" => Fitted(l, w, h)
<1> DEFINE l == UpdateSizes(m, <<w, h>>)
<1>1. CASE PickMode(w, h) = "tiny"
  <2>1. Typed(l) /\ l.width = w /\ l.height = h /\ l.mode = PickMode(w, h)
    BY <1>1, TinyTyped
  <2> HIDE DEF l
  <2> QED BY <1>1, <2>1 DEF l
<1>2. CASE PickMode(w, h) # "tiny"
  <2>1. Fitted(l, w, h)
    BY <1>2, UpdateFitted DEF Typed
  <2> HIDE DEF l
  <2>2. Typed(l) /\ l.width = w /\ l.height = h /\ l.mode = PickMode(w, h)
    BY <2>1 DEF Fitted
  <2> QED BY <2>1, <2>2 DEF l
<1> QED BY <1>1, <1>2

LEMMA WindowInit == Init => WindowInv
<1> SUFFICES ASSUME Init PROVE WindowInv
  OBVIOUS
<1>1. Typed(NoLayout)
  BY DEF Typed, NoLayout, Fields, Flags, Lengths
<1>2. layout = UpdateSizes(NoLayout, <<80, 24>>) /\ 80 \in Nat /\ 24 \in Nat
  BY DEF Init
<1>3. sizes \subseteq Nat \X Nat
  BY TuiAssumption DEF Init
<1>4. /\ Typed(layout) /\ layout.width = 80 /\ layout.height = 24
      /\ layout.mode = PickMode(80, 24)
      /\ layout.mode # "tiny" => Fitted(layout, 80, 24)
  BY <1>1, <1>2, UpdateKeeps
<1> QED BY <1>3, <1>4 DEF WindowInv

LEMMA ResizeKeeps ==
  ASSUME WindowInv, NEW size \in sizes, Resize(size)
  PROVE  WindowInv' /\ layout'.width = size[1] /\ layout'.height = size[2]
<1>1. PICK w \in Nat, h \in Nat : size = <<w, h>>
  BY DEF WindowInv
<1>2. layout' = UpdateSizes(layout, <<w, h>>) /\ sizes' = sizes
  BY <1>1 DEF Resize
<1>3. /\ Typed(layout') /\ layout'.width = w /\ layout'.height = h
      /\ layout'.mode = PickMode(w, h) /\ (layout'.mode # "tiny" => Fitted(layout', w, h))
  BY <1>2, UpdateKeeps DEF WindowInv
<1>4. WindowInv'
  BY <1>2, <1>3 DEF WindowInv
<1> QED BY <1>1, <1>3, <1>4

(* No other step touches the window. *)
LEMMA WindowUntouched ==
  ASSUME [Next]_vars, ~\E size \in sizes : Resize(size)
  PROVE  UNCHANGED <<sizes, layout>>
BY DEF Next, vars, window, Key, Tab, ShiftTab, Digit, Text, EnterField, PressSend, Esc, CtrlC,
       Rest, LogsTick, ServeLogs, FetchFails, LogsFetched, TablesRefresh, Learn, LogLine, Restart

LEMMA WindowStep == ASSUME WindowInv, [Next]_vars PROVE WindowInv'
<1>1. CASE \E size \in sizes : Resize(size)
  BY <1>1, ResizeKeeps
<1>2. CASE ~\E size \in sizes : Resize(size)
  BY <1>2, WindowUntouched DEF WindowInv
<1> QED BY <1>1, <1>2

(* The panels take every row and column of a terminal of whatever size that *)
(* is not too small to be drawn, and no more: layoutWide, layoutSplit,       *)
(* layoutStack and layoutCompact, as layout.go:84 wants it.                  *)
THEOREM PanelsFitHolds == Spec => []PanelsFit
<1>1. WindowInv => PanelsFit
  BY DEF WindowInv, PanelsFit, Drawn, Fitted, Filling
<1> QED BY <1>1, WindowInit, WindowStep, PTL DEF Spec

(* The fields, the button and the title of the compose panel, the log lines *)
(* and the tables fit inside the frames of their panels: the Commit         *)
(* functions and sizeComposeFields of layout.go against what compose.go and *)
(* render.go draw.                                                          *)
THEOREM WidgetsFitHolds == Spec => []WidgetsFit
<1>1. WindowInv => WidgetsFit
  BY DEF WindowInv, WidgetsFit, Drawn, Fitted, Inside
<1> QED BY <1>1, WindowInit, WindowStep, PTL DEF Spec

(* In each table of a terminal that is not too small to be drawn, the       *)
(* columns and their padding take no more than the table has, each has a    *)
(* width between its least and its most, and the id is one of them:         *)
(* fitColumns of tables.go with the widths that the layouts leave it.       *)
THEOREM ColumnsFitHolds == Spec => []ColumnsFit
<1>1. WindowInv => ColumnsFit
  BY DEF WindowInv, ColumnsFit, Drawn, Fitted, Ruled, ColumnsWithin
<1> QED BY <1>1, WindowInit, WindowStep, PTL DEF Spec

(* The layout depends on the new size alone: of the flags and lengths that  *)
(* updateSizes finds in the model, none has an influence on a layout that   *)
(* is drawn (layout.go:98).                                                 *)
THEOREM LayoutForgetsHolds == Spec => LayoutForgets
<1>1. ASSUME WindowInv, [Next]_vars
      PROVE  [(layout' # layout /\ Drawn')
                => layout' = UpdateSizes(NoLayout, <<layout.width, layout.height>>')]_vars
  <2> SUFFICES ASSUME layout' # layout, Drawn'
               PROVE  layout' = UpdateSizes(NoLayout, <<layout'.width, layout'.height>>)
    OBVIOUS
  <2>1. PICK size \in sizes : Resize(size)
    BY <1>1, WindowUntouched
  <2>2. PICK w \in Nat, h \in Nat : size = <<w, h>>
    BY <1>1 DEF WindowInv
  <2>3. layout' = UpdateSizes(layout, <<w, h>>)
    BY <2>1, <2>2 DEF Resize
  <2>4. WindowInv' /\ layout'.width = w /\ layout'.height = h
    BY <1>1, <2>1, <2>2, ResizeKeeps
  <2>5. PickMode(w, h) # "tiny"
    BY <2>4 DEF WindowInv, Drawn
  <2>6. DOMAIN NoLayout = Fields /\ DOMAIN layout = Fields
    BY <1>1 DEF NoLayout, WindowInv, Typed
  <2>7. UpdateSizes(layout, <<w, h>>) = UpdateSizes(NoLayout, <<w, h>>)
    BY <2>5, <2>6, UpdateForgets
  <2> QED BY <2>3, <2>4, <2>7
<1> QED BY <1>1, WindowInit, WindowStep, PTL DEF Spec, LayoutForgets

-----------------------------------------------------------------------------
(* The types. *)

(* What no other part of the invariant speaks of. *)
RestTypeOK ==
  /\ running \in BOOLEAN /\ taken \in Nat
  /\ dst \in {"empty", "number", "other"}
  /\ known \in Nat /\ drawn \in [{"neighbours", "routes"} -> 0 .. known]

LEMMA RestInit == Init => RestTypeOK
<1> SUFFICES ASSUME Init PROVE RestTypeOK
  OBVIOUS
<1>1. known = 0 /\ drawn = [neighbours |-> 0, routes |-> 0]
  BY DEF Init
<1>2. drawn \in [{"neighbours", "routes"} -> 0 .. known]
  BY <1>1
<1> QED BY <1>1, <1>2 DEF Init, RestTypeOK

(* A key may type into the receiver field, send or end the interface. *)
LEMMA KeyKeepsRest == ASSUME RestTypeOK, Key PROVE RestTypeOK'
<1>1. known' = known /\ drawn' = drawn
  BY DEF Key, Tab, ShiftTab, Digit, Text, EnterField, PressSend, Esc, CtrlC, Rest, tables
<1>2. \A k : Type(k) => dst' \in {"empty", "number", "other"}
  BY DEF Type, RestTypeOK
<1>3. dst' \in {"empty", "number", "other"}
  <2>1. CASE Tab \/ ShiftTab \/ (\E d \in 1 .. 4 : Digit(d)) \/ Text \/ EnterField
    BY <1>2, <2>1 DEF Tab, ShiftTab, Digit, Text, EnterField
  <2>2. CASE PressSend \/ Esc \/ CtrlC
    BY <2>2 DEF PressSend, Esc, CtrlC, RestTypeOK
  <2> QED BY <2>1, <2>2 DEF Key
<1>4. running' \in BOOLEAN
  BY DEF Key, Tab, ShiftTab, Digit, Text, EnterField, PressSend, Esc, CtrlC, RestTypeOK
<1>5. taken' = taken \/ taken' = taken + 1
  BY DEF Key, Tab, ShiftTab, Digit, Text, EnterField, PressSend, Esc, CtrlC
<1>6. taken' \in Nat
  BY <1>5 DEF RestTypeOK
<1> QED BY <1>1, <1>3, <1>4, <1>6 DEF RestTypeOK

(* A table is drawn up to a change that has happened. *)
LEMMA TablesKeepRest == ASSUME RestTypeOK, TablesRefresh \/ Learn PROVE RestTypeOK'
<1> USE DEF RestTypeOK
<1>1. UNCHANGED <<running, taken, dst>>
  BY DEF TablesRefresh, Learn, form
<1>2. CASE Learn
  <2>1. known' = known + 1 /\ drawn' = drawn
    BY <1>2 DEF Learn
  <2>2. 0 .. known \subseteq 0 .. known'
    BY <2>1
  <2> QED BY <1>1, <2>1, <2>2
<1>3. CASE TablesRefresh
  <2>1. known' \in Nat /\ known' >= known
    BY <1>3 DEF TablesRefresh
  <2>2. 0 .. known \subseteq 0 .. known' /\ known \in 0 .. known' /\ known' \in 0 .. known'
    BY <2>1
  <2>3. \/ drawn' = [neighbours |-> known, routes |-> known]
        \/ drawn' = [neighbours |-> known, routes |-> known']
        \/ drawn' = drawn \/ drawn' = [drawn EXCEPT !.neighbours = known]
        \/ drawn' = [drawn EXCEPT !.routes = known]
    BY <1>3 DEF TablesRefresh
  <2>4. drawn' \in [{"neighbours", "routes"} -> 0 .. known']
    BY <2>2, <2>3
  <2> QED BY <1>1, <2>1, <2>4
<1> QED BY <1>2, <1>3

LEMMA RestStep == ASSUME RestTypeOK, [Next]_vars PROVE RestTypeOK'
<1>1. CASE Key
  BY <1>1, KeyKeepsRest
<1>2. CASE TablesRefresh \/ Learn
  BY <1>2, TablesKeepRest
<1>3. CASE ~Key /\ ~TablesRefresh /\ ~Learn
  <2>1. UNCHANGED <<running, taken, dst, known, drawn>>
    BY <1>3 DEF Next, vars, form, tables, LogsTick, ServeLogs, FetchFails, LogsFetched, Resize,
                LogLine, Restart
  <2> QED BY <2>1 DEF RestTypeOK
<1> QED BY <1>1, <1>2, <1>3

(* The keyboard is with widgets that can have it. *)
WidgetKeys == keys \subseteq Widgets

LEMMA WidgetsHaveKeys == ASSUME WidgetKeys, [Next]_vars PROVE WidgetKeys'
<1>1. CASE Key
  BY <1>1 DEF WidgetKeys, Key, Tab, ShiftTab, Digit, Text, EnterField, PressSend, Esc, CtrlC,
              MoveFocus
<1>2. CASE ~Key
  <2>1. UNCHANGED keys
    BY <1>2 DEF Next, vars, form, LogsTick, ServeLogs, FetchFails, LogsFetched, Resize,
                TablesRefresh, Learn, LogLine, Restart
  <2> QED BY <2>1 DEF WidgetKeys
<1> QED BY <1>1, <1>2

(* The buffer never holds more lines than it may, every size of the layout  *)
(* is a natural number in whatever order the sizes of the terminal come,    *)
(* and no table is drawn ahead of the node: Buffer.Add, updateSizes and     *)
(* refreshTablesCmd.                                                        *)
THEOREM TuiTypeCorrect == Spec => []TuiTypeOK
<1>1. Init => WidgetKeys
  BY DEF Init, WidgetKeys, Widgets
<1>2. ASSUME TailInv, LifeInv, FormInv, WindowInv, RestTypeOK, WidgetKeys PROVE TuiTypeOK
  <2>1. buffer \in Buffers /\ Len(buffer.entries) <= MaxSize
    <3>1. Len(buffer.entries) = IF buffer.nextID < MaxSize THEN buffer.nextID ELSE MaxSize
      BY <1>2 DEF TailInv, IsWindow
    <3>2. buffer \in Buffers
      BY <1>2 DEF TailInv, TailTypeOK, Buffers
    <3>3. buffer.nextID \in Nat /\ MaxSize \in Nat
      BY <1>2, BufferAssumption DEF TailInv, TailTypeOK
    <3> QED BY <3>1, <3>2, <3>3
  <2>2. \A i \in 1 .. MaxFetch :
          \/ fetch[i] = Free
          \/ fetch[i] \in [state: {"asked"}, since: Nat]
          \/ fetch[i] \in [state: {"answered"}, entries: Seq(LogEntry)]
    BY <1>2 DEF TailInv, TailTypeOK
  <2>3. boot \in Nat /\ lastLogID \in Nat /\ logs \in Seq(LogEntry)
    BY <1>2 DEF TailInv, TailTypeOK
  <2>4. /\ DOMAIN layout = Fields /\ (\A f \in Flags : layout[f] \in BOOLEAN)
        /\ \A f \in Lengths : layout[f] \in Nat
    BY <1>2 DEF WindowInv, Typed
  <2>5. /\ focused \in {Sections[i] : i \in DOMAIN Sections} /\ keys \subseteq Widgets
        /\ draft \in [text: BOOLEAN, newline: BOOLEAN] /\ left \in [Budget -> Nat]
    BY <1>2 DEF FormInv, WidgetKeys, LifeInv
  <2>6. /\ running \in BOOLEAN /\ taken \in Nat /\ dst \in {"empty", "number", "other"}
        /\ known \in Nat /\ drawn \in [{"neighbours", "routes"} -> 0 .. known]
    BY <1>2 DEF RestTypeOK
  <2> QED BY <2>1, <2>2, <2>3, <2>4, <2>5, <2>6, Zenon DEF TuiTypeOK
<1> QED BY <1>1, <1>2, TailInit, TailStep, LifeInit, LifeStep, FormInit, FormStep,
           WindowInit, WindowStep, RestInit, RestStep, WidgetsHaveKeys, PTL DEF Spec
=============================================================================
