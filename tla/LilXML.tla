------------------------------- MODULE LilXML -------------------------------
(***************************************************************************)
(* The XML parser of servers and drivers (common/lilxml.c): it is given    *)
(* one character at a time and returns each element, with all it holds,    *)
(* when its last character is read.  Input is whatever a peer sends.       *)
(*                                                                         *)
(* The element under construction and those it is in are a sequence, the   *)
(* outermost first: its last member is lp->ce, whose pe is the one before. *)
(* A child joins its parent's list when it is closed, which nobody sees    *)
(* before the outermost is.  Reads of any size give the same characters.   *)
(***************************************************************************)
EXTENDS Integers, Sequences

CONSTANTS
  Letters,       (* the letters, and '_'                                     *)
  Digits,
  Others,        (* further characters without a meaning of their own        *)
  NullString     (* the null pointer, of a string                            *)

Blanks == {" ", "\n", "\t"}                     (* isspace *)
Controls == {"\n", "\t"}                        (* iscntrl *)
Marks == {"<", ">", "/", "=", "'", "\"", "?", "!"}
Characters == Letters \union Digits \union Others \union Blanks \union Marks

EndOfFile == "0"

ASSUME LilXMLAssumption ==
  /\ Letters \intersect (Digits \union Others \union Blanks \union Marks) = {}
  /\ (Digits \union Others) \intersect (Blanks \union Marks) = {}
  /\ EndOfFile \notin Characters
  /\ NullString \notin Seq(Characters)

-----------------------------------------------------------------------------
(* Definitions named <Definition>_<Slip> are slips of the pen in the code a *)
(* definition models; the properties are checked to tell them apart.        *)

InitParser == [cs |-> "LOOK4START", ce |-> <<>>, endtag |-> NullString,
               delim |-> "", lastc |-> "", skipping |-> FALSE]

NewElement(tag) == [tag |-> tag, at |-> <<>>, el |-> <<>>, pcdata |-> <<>>]
NewAttribute(c) == [name |-> <<c>>, valu |-> <<>>]

IsTokenChar(start, c) == c \in Letters \/ (~start /\ c \in Digits)

(* The element under construction, and changes to it.                       *)
Current(p) == p.ce[Len(p.ce)]
Change(p, e) == [p EXCEPT !.ce[Len(p.ce)] = e]
Outermost(p) == Len(p.ce) = 1

GrowTag(p, c) == Change(p, [Current(p) EXCEPT !.tag = Append(@, c)])
GrowPCData(p, c) == Change(p, [Current(p) EXCEPT !.pcdata = Append(@, c)])
AddAttr(p, c) == Change(p, [Current(p) EXCEPT !.at = Append(@, NewAttribute(c))])

LastAttr(p) == Len(Current(p).at)
GrowName(p, c) == Change(p, [Current(p) EXCEPT !.at[LastAttr(p)].name = Append(@, c)])
GrowValu(p, c) == Change(p, [Current(p) EXCEPT !.at[LastAttr(p)].valu = Append(@, c)])

PushXMLEle(p, tag) == [p EXCEPT !.ce = Append(@, NewElement(tag)), !.endtag = NullString]

PopXMLEle(p) ==
  LET n == Len(p.ce)
      parent == [p.ce[n - 1] EXCEPT !.el = Append(@, p.ce[n])]
  IN  [p EXCEPT !.ce = Append(SubSeq(p.ce, 1, n - 2), parent), !.endtag = NullString]

(* Content with a newline loses its trailing blanks, and then the newline   *)
(* if it is the only one and last.                                          *)
FirstNewline(s) == CHOOSE i \in DOMAIN s : s[i] = "\n" /\ \A j \in 1 .. i - 1 : s[j] # "\n"
LastNonBlank(s) == CHOOSE i \in DOMAIN s : s[i] # " " /\ \A j \in i + 1 .. Len(s) : s[j] = " "
Chomp(s) ==
  IF \A i \in DOMAIN s : s[i] # "\n" THEN s
  ELSE SubSeq(s, 1, IF FirstNewline(s) = LastNonBlank(s) THEN LastNonBlank(s) - 1
                                                         ELSE LastNonBlank(s))

-----------------------------------------------------------------------------
(* oneXMLchar, state by state: the parser after character c, and 1 when the *)
(* outermost element is closed, -1 for an error, else 0.                    *)
Go(p, cs) == [p |-> [p EXCEPT !.cs = cs], s |-> 0]
Stay(p) == [p |-> p, s |-> 0]
Bogus(p) == [p |-> p, s |-> -1]
Closed(p) == [p |-> p, s |-> 1]

InLook4Start(p, c) == IF c = "<" THEN Go(PushXMLEle(p, <<>>), "LOOK4TAG") ELSE Stay(p)

InLook4Tag(p, c) ==
  IF IsTokenChar(TRUE, c) THEN Go(GrowTag(p, c), "INTAG")
  ELSE IF c \in Blanks THEN Stay(p) ELSE Bogus(p)

InTag(p, c) ==
  CASE IsTokenChar(FALSE, c) -> Stay(GrowTag(p, c))
    [] c = ">" -> Go(p, "LOOK4CON")
    [] c = "/" -> Go(p, "SAWSLASH")
    [] OTHER   -> Go(p, "LOOK4ATTRN")

InLook4AttrN(p, c) ==
  CASE c = ">" -> Go(p, "LOOK4CON")
    [] c = "/" -> Go(p, "SAWSLASH")
    [] IsTokenChar(TRUE, c) -> Go(AddAttr(p, c), "INATTRN")
    [] c \in Blanks -> Stay(p)
    [] OTHER -> Bogus(p)

InSawSlash(p, c) ==
  IF c # ">" THEN Bogus(p)
  ELSE IF Outermost(p) THEN Closed(p) ELSE Go(PopXMLEle(p), "LOOK4CON")

InAttrN(p, c) ==
  CASE IsTokenChar(FALSE, c) -> Stay(GrowName(p, c))
    [] c \in Blanks \union {"="} -> Go(p, "LOOK4ATTRV")
    [] OTHER -> Bogus(p)

InLook4AttrV(p, c) ==
  IF c \in {"'", "\""} THEN Go([p EXCEPT !.delim = c], "INATTRV")
  ELSE IF c \in Blanks \union {"="} THEN Stay(p) ELSE Bogus(p)

InAttrV_AnyQuote(p, c) ==
  IF c \in {"'", "\""} THEN Go(p, "LOOK4ATTRN")
  ELSE IF c \in Controls THEN Stay(p) ELSE Stay(GrowValu(p, c))
InAttrV(p, c) ==
  IF c = p.delim THEN Go(p, "LOOK4ATTRN")
  ELSE IF c \in Controls THEN Stay(p) ELSE Stay(GrowValu(p, c))

InLook4Con(p, c) ==
  CASE c = "<" -> Go(p, "LTINCON")
    [] c \in Blanks -> Stay(p)
    [] OTHER -> Go(GrowPCData(p, c), "INCON")

InCon_Untrimmed(p, c) ==
  IF c = "<" THEN Go(p, "LTINCON") ELSE Stay(GrowPCData(p, c))
InCon(p, c) ==
  IF c = "<" THEN Go(Change(p, [Current(p) EXCEPT !.pcdata = Chomp(@)]), "LTINCON")
             ELSE Stay(GrowPCData(p, c))

InLtInCon(p, c) ==
  CASE c = "/" -> Go([p EXCEPT !.endtag = NullString], "LOOK4CLOSETAG")
    [] IsTokenChar(TRUE, c) -> Go(PushXMLEle(p, <<c>>), "INTAG")
    [] OTHER -> Go(PushXMLEle(p, <<>>), "LOOK4TAG")

InLook4CloseTag_Blank(p, c) ==
  IF IsTokenChar(TRUE, c) THEN Go([p EXCEPT !.endtag = <<c>>], "INCLOSETAG")
  ELSE IF c \in Blanks THEN Go(p, "INCLOSETAG") ELSE Bogus(p)
InLook4CloseTag(p, c) ==
  IF IsTokenChar(TRUE, c) THEN Go([p EXCEPT !.endtag = <<c>>], "INCLOSETAG")
  ELSE IF c \in Blanks THEN Stay(p) ELSE Bogus(p)

InCloseTag(p, c) ==
  CASE IsTokenChar(FALSE, c) -> Stay([p EXCEPT !.endtag = Append(@, c)])
    [] c = ">" -> IF Current(p).tag # p.endtag THEN Bogus(p)
                  ELSE IF Outermost(p) THEN Closed(p)
                  ELSE Go(PopXMLEle(p), "LOOK4CON")
    [] c \in Blanks -> Stay(p)
    [] OTHER -> Bogus(p)

OneXMLChar(p, c) ==
  CASE p.cs = "LOOK4START"    -> InLook4Start(p, c)
    [] p.cs = "LOOK4TAG"      -> InLook4Tag(p, c)
    [] p.cs = "INTAG"         -> InTag(p, c)
    [] p.cs = "LOOK4ATTRN"    -> InLook4AttrN(p, c)
    [] p.cs = "SAWSLASH"      -> InSawSlash(p, c)
    [] p.cs = "INATTRN"       -> InAttrN(p, c)
    [] p.cs = "LOOK4ATTRV"    -> InLook4AttrV(p, c)
    [] p.cs = "INATTRV"       -> InAttrV(p, c)
    [] p.cs = "LOOK4CON"      -> InLook4Con(p, c)
    [] p.cs = "INCON"         -> InCon(p, c)
    [] p.cs = "LTINCON"       -> InLtInCon(p, c)
    [] p.cs = "LOOK4CLOSETAG" -> InLook4CloseTag(p, c)
    [] p.cs = "INCLOSETAG"    -> InCloseTag(p, c)

-----------------------------------------------------------------------------
(* readXMLEle: a '<' waits for the next character, since "<!" and "<?" open *)
(* what is skipped up to the next '>'.  The parser starts afresh after an   *)
(* error and after an element.                                              *)
Reads(p) == [p |-> p, root |-> <<>>, failed |-> FALSE]
Fails == [p |-> InitParser, root |-> <<>>, failed |-> TRUE]
Returns(e) == [p |-> InitParser, root |-> <<e>>, failed |-> FALSE]

PendingLt(p) == IF p.lastc = "<" THEN OneXMLChar(p, "<") ELSE Stay(p)

Process(p, c) ==
  LET q == PendingLt(p)
      r == OneXMLChar(q.p, c)
  IN  IF q.s < 0 \/ r.s < 0 THEN Fails
      ELSE IF r.s = 0 THEN Reads([r.p EXCEPT !.lastc = c])
      ELSE Returns(Current(r.p))

ReadXMLEle(p, c) ==
  IF c = EndOfFile THEN Fails
  ELSE IF ~p.skipping /\ p.lastc = "<" /\ c \in {"?", "!"}
    THEN Reads([p EXCEPT !.skipping = TRUE, !.lastc = c])
  ELSE IF p.skipping THEN Reads([p EXCEPT !.skipping = c # ">", !.lastc = c])
  ELSE IF c = "<" THEN Reads([p EXCEPT !.lastc = c])
  ELSE Process(p, c)

-----------------------------------------------------------------------------
States == {"LOOK4START", "LOOK4TAG", "INTAG", "LOOK4ATTRN", "INATTRN", "LOOK4ATTRV",
           "SAWSLASH", "INATTRV", "LOOK4CON", "INCON", "LTINCON", "LOOK4CLOSETAG",
           "INCLOSETAG"}

(* What each state trusts to be there: an element under construction, its   *)
(* tag, an attribute, content to trim, a closing tag to compare.  None of   *)
(* it is tested where it is used.                                           *)
Structure(p) ==
  /\ p.cs \in States
  /\ p.cs = "LOOK4START" <=> p.ce = <<>>
  /\ \A i \in DOMAIN p.ce : p.cs # "LOOK4TAG" \/ i < Len(p.ce) => p.ce[i].tag # <<>>
  /\ p.cs \in {"INATTRN", "LOOK4ATTRV", "INATTRV"} => LastAttr(p) > 0
  /\ p.cs = "INCON" => Current(p).pcdata # <<>>
  /\ p.cs = "INCLOSETAG" => p.endtag # NullString

=============================================================================
