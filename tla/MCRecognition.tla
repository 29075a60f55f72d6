---------------------------- MODULE MCRecognition ----------------------------
(* Small instances: bytes are 0 and 1, and a height has two of them.  The  *)
(* probes' height is 0 0, whose bytes overlap themselves.                  *)
EXTENDS Recognition

Words(n) == [1 .. n -> {0, 1}]
UpTo(n)  == UNION {Words(i) : i \in 0 .. n}

(* Calldata of three bytes, some of which repeat a byte and some do not.   *)
ThreeBytes == {<<0, 0, 0>>, <<0, 1, 0>>, <<1, 0, 0>>, <<1, 0, 1>>, <<0, 1, 1>>}

(* No key, one of up to three bytes, two, or more than the limit.          *)
UpToThree ==
  {<<>>, <<<<0>>, <<0>>, <<0>>>>} \cup {<<k>> : k \in Words(3) \cup {<<0, 1>>}}
    \cup {<<j, k>> : j \in Words(1), k \in {<<0, 1>>, <<1, 1>>}}

MCHeights == Words(2)
MCDefault == <<0, 0>>

(* Every base of up to four bytes, and of up to two on each side of a      *)
(* height.                                                                 *)
MCTemplates ==
  {[prefix |-> p, hasHeight |-> FALSE, suffix |-> <<>>] : p \in UpTo(4)}
    \cup {[prefix |-> p, hasHeight |-> TRUE, suffix |-> s] : p \in UpTo(3), s \in UpTo(2)}

MCLists == {<<>>, <<"x">>, <<"x", "x">>}

(* Nothing, a length alone, with its elements, or with other keys.         *)
LengthAt(b) == LengthKey(b)
ElementsAt(b, n) == [i \in 1 .. n |-> ElementKey(b, i - 1)]
MCStrayKeys ==
  {<<>>, ElementsAt(<<1>>, 1)}
    \cup {<<LengthAt(b)>> \o ElementsAt(b, n) : b \in {<<1>>, <<0, 0, 1>>}, n \in {0, 2}}
=============================================================================
