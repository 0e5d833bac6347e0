---------------------------- MODULE MCSelection ----------------------------
(* Two panels; the first subscription is saved, and lists twins of one name *)
(* and address in two kinds, one of which its panel has renamed since.      *)
EXTENDS Selection

MCLinkOf == [s \in Sub |-> IF s = "s2" THEN "l2" ELSE "l1"]
MCAddressOf == [k \in Conn |-> IF k = "k3" THEN "y" ELSE "x"]
MCGroupOf == [k \in Conn |-> IF k = "k2" THEN "ss" ELSE "vless"]
MCStored == [s \in {"s1"} |-> [k \in {"k1", "k2"} |-> "n1"]]
MCListed == [l \in Link |-> IF l = "l2" THEN [k \in {"k3"} |-> "n1"]
                            ELSE [k \in {"k1", "k2"} |-> IF k = "k1" THEN "n2" ELSE "n1"]]
=============================================================================
