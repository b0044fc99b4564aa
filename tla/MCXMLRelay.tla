----------------------------- MODULE MCXMLRelay -----------------------------
(* An instance of XMLRelay: elements with what may go wrong in them, in a   *)
(* peer's own writing, and truncated or wrong ones.                         *)
EXTENDS XMLRelay

LOCAL INSTANCE SequencesExt

MCLetters == {"a", "x"}
MCDigits == {"1"}
MCOthers == {"-", "."}

Att(v) == [name |-> <<"x", "1">>, valu |-> v]
Ele(at, el, pcdata) == [tag |-> <<"a">>, at |-> at, el |-> el, pcdata |-> pcdata]
Child(pcdata) == [tag |-> <<"x", "a">>, at |-> <<>>, el |-> <<>>, pcdata |-> pcdata]

(* A peer writes without indentation, with the quote q, and content before  *)
(* children.                                                                *)
RECURSIVE Writing(_, _)
Writing(e, q) ==
  <<"<">> \o e.tag
    \o FlattenSeq([i \in DOMAIN e.at |->
                     <<" ">> \o e.at[i].name \o <<"=", q>> \o e.at[i].valu \o <<q>>])
    \o (IF e.pcdata = <<>> /\ e.el = <<>> THEN <<"/", ">">>
        ELSE <<">">> \o e.pcdata \o FlattenSeq([i \in DOMAIN e.el |-> Writing(e.el[i], q)])
               \o <<"<", "/">> \o e.tag \o <<">">>)

Text(e, q) == [element |-> e, text |-> Writing(e, q)]
As(e, s) == [element |-> e, text |-> s]

Empty == Ele(<<>>, <<>>, <<>>)
MCTexts ==
  { Text(Empty, "'"),
    As(Empty, <<"<", "!", "-", "<", "x", ">", "<", " ", "a", " ", ">", " ", "\n",
                "<", "/", "a", " ", ">">>),
    Text(Ele(<<Att(<<"<", ">", "/">>), Att(<<>>)>>, <<>>, <<>>), "'"),
    Text(Ele(<<Att(<<"'", "=">>)>>, <<>>, <<"x">>), "\""),
    Text(Ele(<<Att(<<"x", "\"", ".">>)>>, <<>>, <<>>), "'"),
    Text(Ele(<<>>, <<>>, <<"x", " ", "1">>), "'"),
    Text(Ele(<<>>, <<>>, <<"x", "\n", " ", "1">>), "'"),
    Text(Ele(<<>>, <<>>, <<"x", "\n", "\n">>), "'"),
    As(Ele(<<>>, <<>>, <<"x">>), <<"<", "a", ">", " ", "x", "\n", " ", "<", "/", "a", ">">>),
    Text(Ele(<<>>, <<Child(<<"x">>), Child(<<>>)>>, <<>>), "'"),
    Text(Ele(<<Att(<<"1">>)>>, <<Child(<<"x", "\n", "1">>)>>, <<"1", " ">>), "\"") }

MCGarbage ==
  { <<"<", "a">>, <<"<", "a", ">", "x">>, <<"<", "a", " ", "x", "=", "'">>,
    <<"<", "a", ">", "<", "/", "x", ">">>, <<"<", "/", "a", ">">>, <<"<", "?">>,
    <<"<", "a", " ", "1", ">">>, <<"<", "a", ">", "<", "/", " ", ">">>,
    <<"<", "a", "/", "<">>, <<"x", ">", "0">>,
    <<"<", "a", ">", "x", "0", "<", "/", "a", ">">> }
=============================================================================
