---------------------------- MODULE MCRequests ----------------------------
(* Instances of Requests: numbers and BLOBs of a device with a plug-in, and *)
(* texts of one without, of which one is read-only.                         *)
EXTENDS Requests

CONSTANTS d1, d2, n, t, r, b, m1, m2

MCDeviceOf == [v \in Vectors |-> IF v \in {n, b} THEN d1 ELSE d2]
MCKind == [v \in Vectors |-> CASE v = n -> "number" [] v = b -> "blob" [] OTHER -> "text"]
MCMembers == [v \in Vectors |-> IF v = n THEN {m1, m2} ELSE {m1}]

One(m, x) == [tag |-> "one", name |-> m, datum |-> x]
MCItems ==
  {One(m, x) : m \in {m1, m2}, x \in Settings}
    \union {One(m1, x) : x \in {-1, 2, Junk}}
    \union {One(Missing, 1), One(Unknown, 1), [One(m1, 1) EXCEPT !.tag = "other"]}

(* Several elements: the wrong one first, last, or twice the same member.   *)
MCSequences ==
  {<<>>} \union {<<e>> : e \in MCItems}
    \union {<<One(m1, 1), e>> : e \in MCItems} \union {<<e, One(m1, 1)>> : e \in MCItems}

New(d, v, items) == [tag |-> "new", device |-> d, vector |-> v, items |-> items]
MCAsked ==
  {New(d1, n, items) : items \in MCSequences}
    \union {New(d2, v, <<One(m1, x)>>) : v \in {t, r}, x \in {1, Junk}}
    \union {New(d1, b, <<One(m1, x)>>) : x \in Settings}
    \union {New(d, v, <<One(m1, 1)>>) : d \in {d1, Elsewhere, Missing}, v \in {Missing, Unknown}}
    \union {New(Elsewhere, n, <<One(m1, 0)>>)}
    \union {[tag |-> "getProperties", version |-> "ours", device |-> d] : d \in {Missing, d1}}
    \union {[tag |-> "getProperties", version |-> x, device |-> Missing] : x \in {"newer", "missing"}}
    \union {[tag |-> "getProperties", version |-> "ours", device |-> Elsewhere]}
    \union {[tag |-> "unknown"]}

MCValues == -1 .. 2
MCSettings == {0, 1}

(* 1 stands for a number like 999999.5, which %g prints above its maximum.  *)
MCRounded == [x \in MCValues |-> IF x = 1 THEN 2 ELSE x]
==========================================================================
