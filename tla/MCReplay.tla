------------------------------ MODULE MCReplay -------------------------------
(* Replay with every short body, and a few messages for the cases that     *)
(* need a longer one or another envelope.                                  *)
EXTENDS Replay

Bytes == {"x", ".", CR, LF}

One(body) == [from |-> <<"x">>, to |-> <<<<"x">>>>, body |-> body]

MCMessages ==
  {One(body) : body \in BoundedSeq(Bytes, 3)}
  \cup {One(<<"x", "x", "x", LF, "x">>),            \* a long line, then one
        One(<<".", "x", LF, ".", LF>>),
        One(<<LF, LF, "R", "x", LF>>),              \* looks like an envelope
        One(CRLF \o CRLF \o <<"x">> \o CRLF),
        One(<<"x", "8bit">>),
        One(<<"x", LF, "MAIL", "<", "x", ">", LF, "RCPT", "<", "x", ">", LF,
              "DATA", LF, "x">>),                   \* looks like a dialogue
        [from |-> <<>>, to |-> <<<<"x">>, <<>>>>, body |-> <<"x">>],
        [from |-> <<"x", LF, "R", "x">>, to |-> <<<<"x", CR, ".">>, <<".">>>>,
         body |-> <<".">>],
        [from |-> <<"x">>, to |-> <<>>, body |-> <<"x">>]}

MCRawContent ==
  BoundedSeq(Bytes, 4)
  \cup {<<"x", "x", "x", LF, ".", LF, "x">>, <<"x", LF, "x", "x", "x", LF>>,
        <<"x", "x", LF, "x", LF, "x", "x", "x", LF>>, <<"8bit", LF>>}
==============================================================================
