-------------------------------- MODULE Codec --------------------------------
(***************************************************************************)
(* Messages as octets: internal/protocol/messages.go.                       *)
(*                                                                          *)
(* <<v, k>> is the octet of significance k of the number v; a field of w    *)
(* octets holds them from w - 1 down to 0 (BigEndian).  So two fields read  *)
(* at the wrong place or width give no number, whatever their values are.   *)
(* Writers and readers are given by their fields: <<offset, width>> of each *)
(* in the header, or in what follows the header.                            *)
(***************************************************************************)
EXTENDS Integers, Sequences

Octets(v, w) == [k \in 1 .. w |-> <<v, w - k>>]
NoNumber == -1
Number(data) ==
  IF data = Octets(data[1][1], Len(data)) THEN data[1][1] ELSE NoNumber

(* MsgType. *)
MsgType == [HELLO |-> 1, RREQ |-> 2, RREP |-> 3, RERR |-> 4, DATA |-> 5]

HeaderSize == 1 + 8 + 1 + 8 + 8 + 4 + 4
(* DATA without its payload. *)
MinDATA == HeaderSize + 4
Size == [HELLO |-> HeaderSize + 2,
         RREQ  |-> HeaderSize + 4 + 4 + 1 + 8,
         RREP  |-> HeaderSize + 4 + 4 + 1,
         RERR  |-> HeaderSize + 1 + 8,
         DATA  |-> MinDATA]

(* The fields of two parts of a message, which differ. *)
Together(r, s) ==
  [f \in DOMAIN r \cup DOMAIN s |-> IF f \in DOMAIN r THEN r[f] ELSE s[f]]

-----------------------------------------------------------------------------
(* MarshalBinary. *)
PutHeader == [type  |-> <<0, 1>>, timestamp |-> <<1, 8>>, ttl |-> <<9, 1>>, src |-> <<10, 8>>,
              dst   |-> <<18, 8>>, srcIP |-> <<26, 4>>, dstIP |-> <<30, 4>>]
PutHELLO == [port |-> <<0, 2>>]
PutRREQ == [srcSeq |-> <<0, 4>>, dstSeq |-> <<4, 4>>, hops |-> <<8, 1>>, bid |-> <<9, 8>>]
PutRREP == [lifetime |-> <<0, 4>>, dstSeq |-> <<4, 4>>, hops |-> <<8, 1>>]
PutRERR == [code |-> <<0, 1>>, unreachable |-> <<1, 8>>]
PutDATA == [seq |-> <<0, 4>>]
PutBody == [HELLO |-> PutHELLO, RREQ |-> PutRREQ, RREP |-> PutRREP, RERR |-> PutRERR,
            DATA |-> PutDATA]

(* A new slice of the given size into which the fields of m are copied. *)
PutFields(m, fields, size) ==
  [i \in 1 .. size |->
     LET Covers(f) == i \in fields[f][1] + 1 .. fields[f][1] + fields[f][2]
         f == CHOOSE f \in DOMAIN fields : Covers(f)
     IN  IF \E g \in DOMAIN fields : Covers(g)
         THEN Octets(m[f], fields[f][2])[i - fields[f][1]] ELSE <<0, 0>>]

(* Message m of the named type; its payload is a slice of octets. *)
MarshalBinary(type, m) ==
  LET data == PutFields(m, PutHeader, HeaderSize)
              \o PutFields(m, PutBody[type], Size[type] - HeaderSize)
  IN  IF type = "DATA" THEN data \o m.payload ELSE data

-----------------------------------------------------------------------------
(* UnmarshalBinary: exact sizes, except for DATA. *)
GetHeader == [type  |-> <<0, 1>>, timestamp |-> <<1, 8>>, ttl |-> <<9, 1>>, src |-> <<10, 8>>,
              dst   |-> <<18, 8>>, srcIP |-> <<26, 4>>, dstIP |-> <<30, 4>>]
GetHELLO == [port |-> <<0, 2>>]
GetRREQ == [srcSeq |-> <<0, 4>>, dstSeq |-> <<4, 4>>, hops |-> <<8, 1>>, bid |-> <<9, 8>>]
(* Mutant: the sequence number is read first. *)
GetRREP_SeqFirst == [dstSeq |-> <<0, 4>>, lifetime |-> <<4, 4>>, hops |-> <<8, 1>>]
GetRREP == [lifetime |-> <<0, 4>>, dstSeq |-> <<4, 4>>, hops |-> <<8, 1>>]
GetRERR == [code |-> <<0, 1>>, unreachable |-> <<1, 8>>]
GetDATA == [seq |-> <<0, 4>>]
GetBody == [HELLO |-> GetHELLO, RREQ |-> GetRREQ, RREP |-> GetRREP, RERR |-> GetRERR,
            DATA |-> GetDATA]

GetFields(data, fields) ==
  [f \in DOMAIN fields |->
     Number(SubSeq(data, fields[f][1] + 1, fields[f][1] + fields[f][2]))]

Refused == [type |-> NoNumber]

UnmarshalBinary(type, data) ==
  LET m == Together(GetFields(SubSeq(data, HeaderSize + 1, Len(data)), GetBody[type]),
                    GetFields(SubSeq(data, 1, HeaderSize), GetHeader))
  IN  IF type = "DATA"
      THEN IF Len(data) < MinDATA THEN Refused
           ELSE Together([payload |-> SubSeq(data, MinDATA + 1, Len(data))], m)
      ELSE IF Len(data) # Size[type] THEN Refused ELSE m

(* handleMessage: what of a datagram reaches a handler. *)
Received(data) ==
  LET type == Number(SubSeq(data, 1, 1))
  IN  IF Len(data) < HeaderSize \/ \A t \in DOMAIN MsgType : MsgType[t] # type THEN Refused
      ELSE UnmarshalBinary(CHOOSE t \in DOMAIN MsgType : MsgType[t] = type, data)
=============================================================================
