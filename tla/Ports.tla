--------------------------------- MODULE Ports --------------------------------
(***************************************************************************)
(* Reservable ports of a router group (models/router_groups.go): parsing,  *)
(* port ranges and validation.  The text of the reservable_ports field is  *)
(* a sequence of range texts (what the commas separate), and a range text  *)
(* the sequence of its endpoints (what the dashes separate).  An endpoint  *)
(* is a number, or NaN when it is not one.                                 *)
(***************************************************************************)
EXTENDS Integers, Sequences

CONSTANTS
  Width,          \* bits of a port number (16)
  MinPort,        \* the smallest port that can be reserved (1024)
  ReservedPorts,  \* ReservedSystemComponentPorts
  FailOnConflict  \* FailOnRouterPortConflicts

PortMax == 2^Width - 1
Port == 0..PortMax

ASSUME PortsAssumption ==
  /\ Width \in Nat \ {0}
  /\ PortMax \in Nat
  /\ MinPort \in Port
  /\ ReservedPorts \subseteq Port
  /\ FailOnConflict \in BOOLEAN

NaN == -1

\* The ranges NewRange and parseRange produce.
Ranges == {r \in [start : Port, end : Port] : r.start <= r.end /\ MinPort <= r.start}

\* parseRange, NewRange: the text t denotes a range.
RangeOK(t) ==
  /\ Len(t) \in {1, 2}
  /\ \A i \in 1..Len(t) : t[i] \in Port /\ t[i] >= MinPort
  /\ t[1] <= t[Len(t)]

RangeOf(t) == [start |-> t[1], end |-> t[Len(t)]]

\* Parse: every range text must denote a range.
ParseOK(p) == \A i \in 1..Len(p) : RangeOK(p[i])

Parse(p) == [i \in 1..Len(p) |-> RangeOf(p[i])]

PortsOf(r) == r.start..r.end

UpperEnd(r, o) == IF r.end > o.end THEN r.end ELSE o.end
LowerStart(r, o) == IF r.start < o.start THEN r.start ELSE o.start

\* uint16 subtraction; the sum is computed in 64 bits.
Minus(a, b) == (a - b) % 2^Width

Overlaps(r, o) ==
  Minus(UpperEnd(r, o), LowerStart(r, o)) <= Minus(r.end, r.start) + Minus(o.end, o.start)

\* The texts parse and no two ranges overlap.
RangesDisjoint(p) ==
  /\ ParseOK(p)
  /\ \A i, j \in 1..Len(p) : i # j => ~Overlaps(Parse(p)[i], Parse(p)[j])

\* ReservablePorts.Validate returns no error.
Validate(p) ==
  /\ RangesDisjoint(p)
  /\ FailOnConflict =>
       \A i \in 1..Len(p) : \A q \in ReservedPorts :
         ~(Parse(p)[i].start <= q /\ q <= Parse(p)[i].end)

=============================================================================
