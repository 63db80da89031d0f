----------------------------- MODULE MCSession -----------------------------
(* Small instances of Session.tla. *)
EXTENDS Session

\* Greetings, good and bad, the last two not on their first line.
Greetings ==
    { <<"m1", "m2", "nl">>, <<"blank", "m1", "m2", "nl">>, <<"m1", "m2", "x", "x">>,
      <<"m1", "x", "nl">>, <<"x", "m2", "nl">>, <<"m2", "m1", "m2", "nl">>,
      <<"nl", "m1", "m2", "nl">>, <<"blank", "blank", "blank", "m1", "m2">> }

\* A blank line, then a good greeting.
BlankLineStreams == { <<"nl", "m1", "m2", "nl">> }

\* Streams for ports without a greeting probe.
AnyStream == { <<"x", "x">> }
=============================================================================
