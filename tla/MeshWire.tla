------------------------------ MODULE MeshWire ------------------------------
(* The messages of the mesh as the datagrams that carry them. *)
EXTENDS MeshProps, Codec

(* The fields that the mesh abstracts from. *)
Abstracted == {"timestamp", "ttl", "dst", "srcIP", "dstIP", "port", "dstSeq", "lifetime", "code"}

CONSTANTS
  PayloadLengths, \* in octets
  Rests           \* what the abstracted fields may hold

ASSUME WireAssumption ==
  PayloadLengths \subseteq Nat /\ Rests \subseteq [Abstracted -> Nat]

(* Message m with a payload of k octets. *)
OnWire(m, k, rest) ==
  Together([f \in DOMAIN m |-> CASE f = "type" -> MsgType[m.type]
                                 [] f = "payload" -> Octets(m.payload, k)
                                 [] OTHER -> m[f]],
           rest)

(* A handler gets the message that was sent, by the decoder of its type,    *)
(* with every field and nothing else, each at its place: what the nodes of  *)
(* MeshNet exchange as records survives MarshalBinary and handleMessage.    *)
(* Of a datagram that was cut short only DATA is accepted, and then only    *)
(* its payload is shorter.                                                  *)
WireFaithful ==
  \A m \in {p.m : p \in net} \cup HELLO, k \in PayloadLengths, rest \in Rests :
    LET w == OnWire(m, k, rest)
        data == MarshalBinary(m.type, w)
    IN  \A n \in 0 .. Len(data) :
          LET got == Received(SubSeq(data, 1, n))
          IN  IF n = Len(data) \/ (m.type = "DATA" /\ n >= MinDATA)
              THEN /\ DOMAIN m \subseteq DOMAIN got
                   /\ \A f \in DOMAIN got :
                        got[f] = IF f = "payload" THEN SubSeq(w[f], 1, n - MinDATA) ELSE w[f]
              ELSE got = Refused
=============================================================================
