------------------------------ MODULE XMLRelay ------------------------------
(***************************************************************************)
(* An element's way through INDICOR: a peer writes it, the server parses   *)
(* it and prints it again (prXMLEle, common/lilxml.c) to the others, where *)
(* it is parsed once more.  The peer may write what is no element.         *)
(***************************************************************************)
EXTENDS LilXML

Library == INSTANCE SequencesExt

CONSTANTS
  Texts,       (* what peers write: elements meant and characters that say so*)
  Garbage,     (* other sequences of characters                              *)
  MaxTexts     (* bound: how many of them a peer writes                      *)

ASSUME XMLRelayAssumption ==
  /\ MaxTexts \in Nat
  /\ \A t \in Texts : t.text \in Seq(Characters)
  /\ Garbage \subseteq Seq(Characters \union {EndOfFile})

VARIABLES
  server, driver,   (* the parsers of the two                               *)
  input, wire,      (* the characters on their way to them                  *)
  parsed, arrived,  (* history: the elements each of them returned          *)
  meant,            (* history: the elements the peer meant                 *)
  written,          (* how many texts it has written                        *)
  sane              (* history: none of them was garbage                    *)

relayVars == <<server, driver, input, wire, parsed, arrived, meant, written, sane>>

-----------------------------------------------------------------------------
(* prXMLEle, with its indentation.                                          *)
Spaces(n) == [i \in 1 .. n |-> " "]
Indent == 4

PrintAttribute(a) == <<" ">> \o a.name \o <<"=", "\"">> \o a.valu \o <<"\"">>

HasNewline(s) == \E i \in DOMAIN s : s[i] = "\n"
PrintPCData(s, n) ==
  (IF ~HasNewline(s) \/ FirstNewline(s) = Len(s) THEN Spaces(n + Indent) ELSE <<>>)
    \o s \o (IF HasNewline(s) THEN <<>> ELSE <<"\n">>)

Attributes(at) == Library!FlattenSeq([i \in DOMAIN at |-> PrintAttribute(at[i])])

(* The element that is in e along a path: which child, and which of its.    *)
Within(e, path) == Library!FoldLeft(LAMBDA x, i : x.el[i], e, path)

PrXMLEle(e) ==
  LET pr[path \in Seq(Nat)] ==
        LET x == Within(e, path)
            n == Len(path) * Indent
            open == Spaces(n) \o <<"<">> \o x.tag \o Attributes(x.at)
            children == Library!FlattenSeq([i \in DOMAIN x.el |-> pr[Append(path, i)]])
        IN  IF x.el = <<>> /\ x.pcdata = <<>> THEN open \o <<"/", ">", "\n">>
            ELSE open \o <<">", "\n">> \o children
                   \o (IF x.pcdata = <<>> THEN <<>> ELSE PrintPCData(x.pcdata, n))
                   \o Spaces(n) \o <<"<", "/">> \o x.tag \o <<">", "\n">>
  IN  pr[<<>>]

-----------------------------------------------------------------------------
RelayInit ==
  /\ server = InitParser /\ driver = InitParser
  /\ input = <<>> /\ wire = <<>>
  /\ parsed = <<>> /\ arrived = <<>> /\ meant = <<>>
  /\ written = 0 /\ sane = TRUE

Write ==
  /\ input = <<>> /\ wire = <<>> /\ written < MaxTexts
  /\ written' = written + 1
  /\ \/ \E t \in Texts : input' = t.text /\ meant' = Append(meant, t.element) /\ sane' = sane
     \/ \E g \in Garbage : input' = g /\ meant' = meant /\ sane' = FALSE
  /\ UNCHANGED <<server, driver, wire, parsed, arrived>>

(* The server reads on when the relay has been drained: the two share only  *)
(* the characters between them, so that this loses nothing.                 *)
ServerReads ==
  /\ input # <<>> /\ wire = <<>>
  /\ LET r == ReadXMLEle(server, Head(input))
     IN  /\ server' = r.p
         /\ parsed' = parsed \o r.root
         /\ wire' = IF r.root = <<>> THEN <<>> ELSE PrXMLEle(r.root[1])
  /\ input' = Tail(input)
  /\ UNCHANGED <<driver, arrived, meant, written, sane>>

DriverReads ==
  /\ wire # <<>>
  /\ LET r == ReadXMLEle(driver, Head(wire))
     IN  driver' = r.p /\ arrived' = arrived \o r.root
  /\ wire' = Tail(wire)
  /\ UNCHANGED <<server, input, parsed, meant, written, sane>>

RelayNext == Write \/ ServerReads \/ DriverReads

RelaySpec == RelayInit /\ [][RelayNext]_relayVars

-----------------------------------------------------------------------------
RelayTypeOK ==
  /\ server.cs \in States /\ driver.cs \in States
  /\ input \in Seq(Characters \union {EndOfFile}) /\ wire \in Seq(Characters)
  /\ written \in 0 .. MaxTexts /\ sane \in BOOLEAN

(* Whatever peers write, neither parser uses an element, an attribute or a  *)
(* string that is not there: readXMLEle checks for none of them.            *)
NeverNull == Structure(server) /\ Structure(driver)

(* A peer that writes elements, in whatever way XML allows, is understood:  *)
(* names, values and content, trimmed, with what is skipped left out.       *)
ParsedAsMeant ==
  sane => /\ Library!IsPrefix(parsed, meant)
          /\ input = <<>> => parsed = meant

(* A double quote in a value is not escaped by prXMLEle, which writes values*)
(* in double quotes whatever quote they were read in.                       *)
Printable(e) ==
  LET is[path \in Seq(Nat)] ==
        LET x == Within(e, path)
        IN  /\ \A i \in DOMAIN x.at : "\"" \notin {x.at[i].valu[j] : j \in DOMAIN x.at[i].valu}
            /\ \A i \in DOMAIN x.el : is[Append(path, i)]
  IN  is[<<>>]

(* What the server has understood arrives as it was, even when the peer     *)
(* writes garbage: indentation and newlines that prXMLEle adds are removed  *)
(* by the second parser, neither more nor less.                             *)
RelayFaithful ==
  (\A i \in DOMAIN parsed : Printable(parsed[i])) =>
     /\ Library!IsPrefix(arrived, parsed)
     /\ wire = <<>> => arrived = parsed /\ driver.cs = "LOOK4START"
=============================================================================
