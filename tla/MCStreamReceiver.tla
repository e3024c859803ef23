-------------------------- MODULE MCStreamReceiver --------------------------
(***************************************************************************)
(* Instances of StreamReceiver for TLC: a VPS, an atlas stream of two      *)
(* NALUs per GoF and a video stream of one, three GoFs over a clock that   *)
(* wraps (instant 0 included).  "Auto" stands for (size_t)-1.              *)
(***************************************************************************)
EXTENDS StreamReceiver

Auto == 9
ThreeInstants == <<6, 0, 2>>
ThreeGofs == (0 :> <<1>>) @@ (1 :> <<1, 1, 2, 3>>) @@ (2 :> <<1, 2, 3>>)
TwoInstants == <<6, 0>>
TwoGofs == (0 :> <<1>>) @@ (1 :> <<1, 1, 2, 2>>) @@ (2 :> <<1, 2>>)

Sizes(vps, ad, ovd) == (0 :> vps) @@ (1 :> ad) @@ (2 :> ovd)
SomeSizes == {Sizes(1, 2, 1), Sizes(2, Auto, Auto), Sizes(0, 2, 1)}
SizesSent == {Sizes(1, 2, 1)}   \* for every call, the numbers of the first GoF
=============================================================================
