--------------------------- MODULE MCPortReservation --------------------------
(* Instances of PortReservation for TLC: ports 2 to 7 of 3 bits. *)
EXTENDS PortReservation, TLC

\* Ranges that end below the largest port, and texts that are refused.
LowWishes == {<<<<2, 4>>>>, <<<<3, 6>>>>, <<<<3>>>>, <<<<2, 3>>, <<5, 6>>>>}

\* A group with two ranges, one that overlaps neither, and one to be created.
SomeGroups == "a" :> <<<<2, 3>>, <<5>>>> @@ "b" :> <<<<6>>>> @@ "c" :> Absent

\* As before, with a group of type http.
WithHTTP == "a" :> <<<<2, 3>>>> @@ "b" :> <<>> @@ "c" :> Absent

\* A group that has all ports up to the largest one, as in the API's examples.
UpToLargest == "a" :> <<<<2, 7>>>> @@ "c" :> Absent

Mixed == {SomeGroups, WithHTTP}
Largest == {UpToLargest}

=============================================================================
