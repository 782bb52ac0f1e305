------------------------------- MODULE MCFraming -------------------------------
(* Frames of a header of two bytes and bodies of up to two, plain and encrypted; *)
(* one action allows no more than one byte.                                     *)
EXTENDS FramingProperties

MCHeaders == {[len |-> 0, max |-> NoMax], [len |-> 1, max |-> 1],
              [len |-> 2, max |-> NoMax], [len |-> 2, max |-> 1]}
=============================================================================
