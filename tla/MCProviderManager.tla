------------------------- MODULE MCProviderManager -------------------------
(* Two providers, the second listed first to be asked and behind a bucket; *)
(* three prompts, two of them with one text.                               *)
EXTENDS ProviderManager, TLC
CONSTANTS m1, m2, none, q1, q2, q3, t1, t2
TwoProviders == 1 .. 2
SecondFirst == <<1, 5>>
FirstFixed == <<m1, none>>
TextOf == q1 :> t1 @@ q2 :> t1 @@ q3 :> t2
InputOf == q1 :> 1 @@ q2 :> 2 @@ q3 :> 1
=============================================================================
