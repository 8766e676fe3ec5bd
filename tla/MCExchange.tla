---------------------------- MODULE MCExchange -----------------------------
(* Instances of Exchange for TLC. *)
EXTENDS Exchange

Plain == [command |-> "text", arguments |-> <<"text">>]
Torn == [command |-> "text", arguments |-> <<"cdataEnd">>]
MCLines == {Plain, Torn}
PlainOnly == {Plain}
=============================================================================
