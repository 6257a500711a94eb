------------------------------- MODULE Routing -------------------------------
(***************************************************************************)
(* The operations of internal/routing on the two tables of a node, as pure  *)
(* operators on finite partial functions from node ids to entries.          *)
(*                                                                          *)
(* A route entry is [seq, hops, next, addr, iface, live, pre]: DstSeq,      *)
(* HopCount, NextHopID, NextHopAddr, Interface, whether Lifetime lies in    *)
(* the future, Precursors.  A neighbour entry is [addr, iface, silent]:     *)
(* Addr, Interface, whether LastSeen is over three HELLO intervals old.     *)
(***************************************************************************)
EXTENDS Naturals

(* The map of a Table: no entries. *)
NewTable == [x \in {} |-> x]

(* Table.Put *)
Put(t, k, e) == [x \in DOMAIN t \cup {k} |-> IF x = k THEN e ELSE t[x]]

(* Table.Delete, of one key or (the collector's loop) of several *)
DeleteAll(t, K) == [x \in DOMAIN t \ K |-> t[x]]
Delete(t, k) == DeleteAll(t, {k})

(* t is a table from some of the ids K to entries of the set E. *)
IsTable(t, K, E) == DOMAIN t \subseteq K /\ t \in [DOMAIN t -> E]

(* f gives each of the nodes N such a table. *)
AreTables(f, N, K, E) == /\ f = [n \in N |-> f[n]]
                         /\ \A n \in N : IsTable(f[n], K, E)

-----------------------------------------------------------------------------
(* FindRoute returns the entry and true exactly when it is present and not  *)
(* expired; an expired entry it meets is deleted.                           *)
RouteFound(t, d) == d \in DOMAIN t /\ t[d].live

AfterFindRoute(t, d) ==
  IF d \in DOMAIN t /\ ~t[d].live THEN Delete(t, d) ELSE t

(* The freshness order of UpdateRoute: a higher sequence number, or the     *)
(* same one over fewer hops.                                                *)
Fresher(e, f) == \/ e.seq > f.seq
                 \/ (e.seq = f.seq /\ e.hops < f.hops)

(* Mutant: the entry heard last replaces the one in the table. *)
UpdateRoute_Always(t, d, e) == Put(t, d, e)

(* UpdateRoute looks only at the order: that the old entry has expired does *)
(* not matter.  The precursors of a replaced entry are kept.                *)
UpdateRoute(t, d, e) ==
  IF d \notin DOMAIN t THEN Put(t, d, e)
  ELSE IF Fresher(e, t[d]) THEN Put(t, d, [e EXCEPT !.pre = t[d].pre])
  ELSE t

(* AddPrecursor does nothing when there is no route. *)
AddPrecursor(t, d, p) ==
  IF d \in DOMAIN t THEN [t EXCEPT ![d].pre = @ \cup {p}] ELSE t

-----------------------------------------------------------------------------
(* UpdateNeighbour overwrites: one address per id, the last one heard. *)
UpdateNeighbour(t, id, a, i) ==
  Put(t, id, [addr |-> a, iface |-> i, silent |-> FALSE])

(* FindNeighbourByAddr returns some id whose address matches (Go's map      *)
(* order is arbitrary): the ids it may return, none when it reports false.  *)
NeighboursByAddr(t, a) == {id \in DOMAIN t : t[id].addr = a}
=============================================================================
