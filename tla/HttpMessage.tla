---------------------------- MODULE HttpMessage ----------------------------
(***************************************************************************)
(* uv::http::Request and uv::http::Response: putting a message together and *)
(* taking it apart.  Text is a sequence of lexemes; the characters the code *)
(* looks for (CR, LF, space, ":", "?", "=", "&", "/") are lexemes of their  *)
(* own, and so is each digit string.  A lexeme of content counts as one     *)
(* byte of Content-Length.  A position of 0 stands for npos.                *)
(***************************************************************************)
EXTENDS Integers, Sequences, SequencesExt

Text == Seq(STRING)
Crlf == <<"CR", "LF">>

First[places \in SUBSET Nat] == IF places = {} THEN 0 ELSE Min(places)

\* std::string::find: the first place of pat in str, not before from.
Find(str, pat, from) ==
    First[{i \in from..(Len(str) - Len(pat) + 1) :
             SubSeq(str, i, i + Len(pat) - 1) = pat}]

After(str, n) == SubSeq(str, n + 1, Len(str))

Put(map, key, value) ==
    [k \in DOMAIN map \cup {key} |-> IF k = key THEN value ELSE map[k]]

Lookup(map, key) == IF key \in DOMAIN map THEN map[key] ELSE <<>>

InOrder(set) == SetToSortSeq(set, <)

\* The numbers std::stoi reads here, hexadecimal ones having one digit.
NumberOf == ("0" :> 0) @@ ("1" :> 1) @@ ("2" :> 2) @@ ("3" :> 3)
            @@ ("200" :> 200) @@ ("404" :> 404)

\* stoi skips white space; it throws when no number follows.
Number(str) ==
    LET digits == SelectSeq(str, LAMBDA x : x \notin {"CR", "LF", " "})
    IN  IF digits # <<>> /\ digits[1] \in DOMAIN NumberOf
          THEN {NumberOf[digits[1]]} ELSE {}

Versions == {"HTTP/1.0", "HTTP/1.1"}
HttpVersionToStr(version) == IF version \in Versions THEN <<version>> ELSE <<>>
GetHttpVersion(str) ==
    IF Len(str) = 1 /\ str[1] \in Versions THEN str[1] ELSE "Unknown"

Methons == {"GET", "POST", "HEAD", "PUT", "DELETE", "CONNECT", "OPTIONS",
            "TRACE", "PATCH"}
MethonToStr(methon) == IF methon \in Methons THEN <<methon>> ELSE <<>>
StrToMethon(str) ==
    IF Len(str) = 1 /\ str[1] \in Methons THEN str[1] ELSE "Invalid"

-----------------------------------------------------------------------------
(* HttpCommon *)

\* SplitHttpOfCRLF(): where the blank line is, and the lines before it, ended
\* at the given places.  The search for a line's end starts after its first
\* character, so a break at the very beginning does not count.
BodyPos(str) == Find(str, Crlf \o Crlf, 1)

Cut[str \in Text, ends \in Seq(Nat)] ==
    [i \in DOMAIN ends |->
        SubSeq(str, IF i = 1 THEN 1 ELSE ends[i - 1] + 2, ends[i] - 1)]

Lines[str \in Text, bodyPos \in Nat] ==
    Cut[str, InOrder({p \in 2..bodyPos : SubSeq(str, p, p + 1) = Crlf})]

\* Three parts, or nothing: runs of spaces count as one in front of the first
\* two, and the third is all the rest.
Parts[str \in Text, ends \in Seq(Nat)] ==
    LET part(p) == SubSeq(str, Max({0} \cup {q \in 1..(p - 1) : str[q] = " "}) + 1, p - 1)
    IN  IF Len(ends) < 2 \/ ends[2] = Len(str) THEN <<>>
        ELSE <<part(ends[1]), part(ends[2]), After(str, ends[2])>>

SplitStrOfSpace[str \in Text] ==
    Parts[str, InOrder({p \in 2..Len(str) : str[p] = " " /\ str[p - 1] # " "})]

HeadSep == <<":", " ">>

AppendHead(str, heads) ==
    LET pos == Find(str, HeadSep, 1)
    IN  Put(heads, SubSeq(str, 1, pos - 1), After(str, pos + 1))

\* The header lines, and the text pack() makes of them.
Heads(lines) == FoldLeft(LAMBDA h, line : AppendHead(line, h), <<>>, After(lines, 1))
HeadsWrong(lines) == \E i \in 2..Len(lines) : Find(lines[i], HeadSep, 1) = 0
HeadText(heads) ==
    FlattenSeq([i \in 1..Cardinality(DOMAIN heads) |->
        LET key == SetToSeq(DOMAIN heads)[i] IN key \o HeadSep \o heads[key] \o Crlf])

\* What the declared length says of the content: there is none, it is no
\* number, or it is right or wrong.
Declared(m) ==
    LET key == IF <<"Content-Length">> \in DOMAIN m.heads
                 THEN <<"Content-Length">> ELSE <<"content-length">>
    IN  IF key \notin DOMAIN m.heads THEN "none"
        ELSE IF Number(m.heads[key]) = {} THEN "not a number"
        ELSE IF Number(m.heads[key]) = {Len(m.content)} THEN "right" ELSE "wrong"

Parsed(rst, m) == [rst |-> rst, msg |-> m]

\* setters both kinds of message have
appendHead(m, key, value) == [m EXCEPT !.heads = Put(@, key, value)]
getHead(m, key) == Lookup(m.heads, key)
swapContent(m, str) == [m EXCEPT !.content = str]

-----------------------------------------------------------------------------
(* Request *)

NewRequest(version, methon) ==
    [version |-> version, methon |-> methon, path |-> <<>>, value |-> <<>>,
     urlParms |-> <<>>, heads |-> <<>>, content |-> <<>>]
setPath(r, path) == [r EXCEPT !.path = path]
appendUrlParam(r, key, value) == [r EXCEPT !.urlParms = Put(@, key, value)]
getUrlParam(r, key) == Lookup(r.urlParms, key)

WithSlash(path) ==
    IF path = <<>> \/ path[1] # "/" THEN <<"/">> \o path ELSE path

packPathParam(r) ==
    LET keys == SetToSeq(DOMAIN r.urlParms)
        text == FlattenSeq([i \in DOMAIN keys |->
                  keys[i] \o <<"=">> \o r.urlParms[keys[i]] \o <<"&">>])
    IN  WithSlash(r.path)
        \o (IF keys = <<>> THEN <<>> ELSE <<"?">> \o SubSeq(text, 1, Len(text) - 1))

packRequest(r) ==
    MethonToStr(r.methon) \o <<" ">> \o packPathParam(r) \o <<" ">>
    \o HttpVersionToStr(r.version) \o Crlf \o HeadText(r.heads) \o Crlf \o r.content

\* The parameters of str from position i on, where a "?" or a "&" is.
UrlParms[str \in Text, i \in Nat] ==
    LET eq == IF i = 0 THEN 0 ELSE Find(str, <<"=">>, i)
        amp == Find(str, <<"&">>, eq)
        end == IF amp = 0 THEN Len(str) + 1 ELSE amp
    IN  IF eq = 0 THEN <<>>
        ELSE <<<<SubSeq(str, i + 1, eq - 1), SubSeq(str, eq + 1, end - 1)>>>>
             \o UrlParms[str, amp]

\* A ":" splits the path from a value, and then there are no parameters.
unpackPath(r, str) ==
    LET colon == Find(str, <<":">>, 1)
        mark == Find(str, <<"?">>, 1)
    IN  IF colon # 0
          THEN [r EXCEPT !.path = SubSeq(str, 1, colon),
                         !.value = After(str, colon),
                         !.urlParms = <<>>]
          ELSE [r EXCEPT !.path = IF mark = 0 THEN str ELSE SubSeq(str, 1, mark - 1),
                         !.urlParms = FoldLeft(LAMBDA m, kv : Put(m, kv[1], kv[2]),
                                               <<>>, UrlParms[str, mark])]

unpackUrl(r, str) ==
    LET out == SplitStrOfSpace[str]
    IN  IF out = <<>> \/ StrToMethon(out[1]) = "Invalid" THEN Parsed("Error", r)
        ELSE Parsed("Success",
                    [unpackPath(r, out[2]) EXCEPT !.methon = StrToMethon(out[1]),
                                                  !.version = GetHttpVersion(out[3])])

\* A message that starts with a blank line has no first line: headList[0] is
\* then read beyond the end of the vector, where an empty string was.
FirstLine(lines) == IF lines = <<>> THEN <<>> ELSE lines[1]

RequestOf[lines \in Seq(Text), content \in Text] ==
    LET url == unpackUrl(NewRequest("HTTP/1.1", "GET"), FirstLine(lines))
    IN  IF url.rst # "Success" \/ HeadsWrong(lines) THEN Parsed("Error", url.msg)
        ELSE Parsed("Success", [url.msg EXCEPT !.heads = Heads(lines), !.content = content])

unpackRequest(data) ==
    IF BodyPos(data) = 0 THEN Parsed("Fail", NewRequest("HTTP/1.1", "GET"))
    ELSE RequestOf[Lines[data, BodyPos(data)], After(data, BodyPos(data) + 3)]

WithoutLength(data) == unpackRequest(data)  \* mutant: complete with its heads

RequestCompleted(data) ==
    LET p == unpackRequest(data)
    IN  IF p.rst = "Success" /\ Declared(p.msg) = "wrong"
          THEN Parsed("Fail", p.msg) ELSE p

-----------------------------------------------------------------------------
(* Response *)

NewResponse(version, code) ==
    [version |-> version, statusCode |-> code, statusInfo |-> <<>>,
     heads |-> <<>>, content |-> <<>>]
setStatus(r, code, info) == [r EXCEPT !.statusCode = code, !.statusInfo = info]

packResponse(r) ==
    HttpVersionToStr(r.version) \o <<" ">> \o r.statusCode \o <<" ">>
    \o r.statusInfo \o Crlf \o HeadText(r.heads) \o Crlf \o r.content

parseStatus(r, str) ==
    LET out == SplitStrOfSpace[str]
    IN  IF out = <<>> \/ Number(out[2]) = {} THEN Parsed("Error", r)
        ELSE Parsed("Success", [r EXCEPT !.version = GetHttpVersion(out[1]),
                                         !.statusCode = out[2], !.statusInfo = out[3]])

ResponseOf[lines \in Seq(Text), content \in Text] ==
    LET status == parseStatus(NewResponse("HTTP/1.1", <<"200">>), FirstLine(lines))
    IN  IF status.rst # "Success" \/ HeadsWrong(lines) THEN Parsed("Error", status.msg)
        ELSE Parsed("Success", [status.msg EXCEPT !.heads = Heads(lines), !.content = content])

unpackResponse(data) ==
    IF BodyPos(data) = 0 THEN Parsed("Fail", NewResponse("HTTP/1.1", <<"200">>))
    ELSE ResponseOf[Lines[data, BodyPos(data)], After(data, BodyPos(data) + 3)]

\* The chunks of content from p1 on, appended to temp.
Chunks[content \in Text, p1 \in Nat, temp \in Text] ==
    LET p2 == Find(content, Crlf, p1 + 1)
        size == Number(SubSeq(content, p1, p2 - 1))
        num == CHOOSE n \in size : TRUE
        next == p2 + 2 + num
    IN  IF p2 = 0 THEN [rst |-> "Fail", content |-> content]
        ELSE IF size = {} THEN [rst |-> "Error", content |-> content]
        ELSE IF num = 0 THEN [rst |-> "Success", content |-> temp]
        ELSE IF next > Len(content) + 1 THEN [rst |-> "Fail", content |-> content]
        ELSE Chunks[content, next, temp \o SubSeq(content, p2 + 2, next - 1)]

isCompletedChunked(r) ==
    LET c == Chunks[r.content, 1, <<>>]
    IN  Parsed(c.rst, [r EXCEPT !.content = c.content])

WithoutEnd(data) == unpackResponse(data)  \* mutant: complete with its heads

\* Only a length or chunks can complete a response before its connection ends.
ResponseCompleted(data) ==
    LET p == unpackResponse(data)
    IN  IF p.rst # "Success" \/ Declared(p.msg) \in {"wrong", "not a number"}
          THEN Parsed("Fail", p.msg)
        ELSE IF Declared(p.msg) = "right" THEN p
        ELSE IF getHead(p.msg, <<"Transfer-Encoding">>) = <<"chunked">>
          THEN isCompletedChunked(p.msg)
        ELSE Parsed("Fail", p.msg)
=============================================================================
