----------------------------- MODULE MCDelivery ------------------------------
(* Delivery with two calls, of one message or two, within two seconds.     *)
EXTENDS Delivery

(* In the last second every content has the same hash, before it each      *)
(* message has its own.                                                    *)
MCDigest(raw) ==
  {raw[i].mail : i \in {j \in DOMAIN raw : raw[j].time # LastSecond}}
==============================================================================
