---------------------------- MODULE MCDispatcher ----------------------------
(* Instances of Dispatcher small enough for TLC. *)
EXTENDS Dispatcher

Letters == {"a", "b", "c", "e", "l"}

(* A name and another one below it. *)
TwoTops == {<<"a">>, <<"a", "b">>}

(* Two streams that have a full name in common, a dataset and a command that
   overlap. *)
SomeOffers == {
    [rel |-> <<"e">>, kind |-> "STREAM"],
    [rel |-> <<"b", "e">>, kind |-> "STREAM"],
    [rel |-> <<"l">>, kind |-> "DATASET"],
    [rel |-> <<"l", "c">>, kind |-> "COMMAND"]}
=============================================================================
