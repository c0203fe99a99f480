--------------------------- MODULE HttpRequestParser ---------------------------
(***************************************************************************)
(* HttpRequestParser of async_web_server_cpp: the automaton that reads a   *)
(* request one character at a time and fills in an HttpRequest.            *)
(*                                                                         *)
(* A character is its class: what the parser tells apart.  "a" is any      *)
(* token character that is not one of H T P . & 0 1; "(" any separator     *)
(* that has no role of its own; "ctl" any control character but CR, LF and tab; *)
(* "high" a byte that is negative as a char.  The digits of a version are  *)
(* kept as digits, not as the number they denote.                          *)
(*                                                                         *)
(* parse() is consume() until it has a result or the bytes end, and the    *)
(* parser keeps nothing else, so how the bytes are cut into reads is not   *)
(* visible here: one step is one character, of whichever read.             *)
(***************************************************************************)
EXTENDS Naturals, Sequences

CONSTANT Texts              \* what clients send

Digit == {"0", "1"}
Lws == {"sp", "tab"}
Ctl == {"cr", "lf", "tab", "ctl"}
Tspecial == {"sp", "tab", ":", "/", "?", "=", "("}
Token == {"a", "H", "T", "P", ".", "&"} \cup Digit
NotCtl == Token \cup (Tspecial \ {"tab"}) \cup {"high"}
Chars == NotCtl \cup Ctl

ASSUME TextsAssumption == Texts \subseteq Seq(Chars)

VARIABLES
  text,                     \* the bytes the client sends
  pos,                      \* how many of them were consumed
  state_,                   \* state_
  result,                   \* "none" while parse() wants more
  req                       \* the HttpRequest being filled in

parserVars == <<text, pos, state_, result, req>>

On(state, chars, next, put) ==
  [from |-> state, on |-> chars, to |-> next, put |-> put]

RequestLine ==
  { On("method_start", Token, "method", "method"),
    On("method", {"sp"}, "uri", "nothing"),
    On("method", Token, "method", "method"),
    On("uri", {"sp"}, "http_version_h", "nothing"),
    On("uri", NotCtl \ {"sp"}, "uri", "uri") }

HttpVersion ==
  { On("http_version_h", {"H"}, "http_version_t_1", "nothing"),
    On("http_version_t_1", {"T"}, "http_version_t_2", "nothing"),
    On("http_version_t_2", {"T"}, "http_version_p", "nothing"),
    On("http_version_p", {"P"}, "http_version_slash", "nothing"),
    On("http_version_slash", {"/"}, "http_version_major_start", "nothing"),
    On("http_version_major_start", Digit, "http_version_major", "major"),
    On("http_version_major", {"."}, "http_version_minor_start", "nothing"),
    On("http_version_major", Digit, "http_version_major", "major"),
    On("http_version_minor_start", Digit, "http_version_minor", "minor"),
    On("http_version_minor", {"cr"}, "expecting_newline_1", "nothing"),
    On("http_version_minor", Digit, "http_version_minor", "minor"),
    On("expecting_newline_1", {"lf"}, "header_line_start", "nothing") }

\* A line that starts with white space continues the last header, if any.
Headers(headers) ==
  { On("header_line_start", {"cr"}, "expecting_newline_3", "nothing"),
    On("header_line_start", IF headers = <<>> THEN {} ELSE Lws, "header_lws", "nothing"),
    On("header_line_start", Token, "header_name", "header"),
    On("header_lws", {"cr"}, "expecting_newline_2", "nothing"),
    On("header_lws", Lws, "header_lws", "nothing"),
    On("header_lws", NotCtl \ Lws, "header_value", "value"),
    On("header_name", {":"}, "space_before_header_value", "nothing"),
    On("header_name", Token, "header_name", "name"),
    On("space_before_header_value", {"sp"}, "header_value", "nothing"),
    On("header_value", {"cr"}, "expecting_newline_2", "nothing"),
    On("header_value", NotCtl, "header_value", "value"),
    On("expecting_newline_2", {"lf"}, "header_line_start", "nothing") }

\* Slip: a line that starts with white space is not a continuation.
TransitionsNoFold(c) ==
  { row \in RequestLine \cup HttpVersion \cup Headers(req.headers) :
      row.from = state_ /\ c \in row.on /\ row.to # "header_lws" }

\* What the transitions out of the state allow for the character.
Transitions(c) ==
  { row \in RequestLine \cup HttpVersion \cup Headers(req.headers) :
      row.from = state_ /\ c \in row.on }

\* Slip: the character that starts a header is not part of its name.
PutDropsFirst(where, c) ==
  LET n == Len(req.headers)
  IN  CASE where = "nothing" -> req
        [] where = "header" ->
             [req EXCEPT !.headers = Append(@, [name |-> <<>>, value |-> <<>>])]
        [] where \in {"name", "value"} ->
             [req EXCEPT !.headers[n][where] = Append(@, c)]
        [] OTHER -> [req EXCEPT ![where] = Append(@, c)]

\* The request with the character where the transition puts it.
Put(where, c) ==
  LET n == Len(req.headers)
  IN  CASE where = "nothing" -> req
        [] where = "header" ->
             [req EXCEPT !.headers = Append(@, [name |-> <<c>>, value |-> <<>>])]
        [] where \in {"name", "value"} ->
             [req EXCEPT !.headers[n][where] = Append(@, c)]
        [] OTHER -> [req EXCEPT ![where] = Append(@, c)]

ParserInit ==
  /\ text \in Texts
  /\ pos = 0
  /\ state_ = "method_start"
  /\ result = "none"
  /\ req = [method |-> <<>>, uri |-> <<>>, major |-> <<>>, minor |-> <<>>,
            headers |-> <<>>]

\* consume(): nothing but a transition, the final newline or a rejection.
Consume(c) ==
  \/ \E row \in Transitions(c) :
       /\ state_' = row.to
       /\ req' = Put(row.put, c)
       /\ UNCHANGED result
  \/ /\ Transitions(c) = {}
     /\ result' = IF state_ = "expecting_newline_3" /\ c = "lf" THEN "true" ELSE "false"
     /\ UNCHANGED <<state_, req>>

\* parse(): consumes while there are bytes and no result.
Parse ==
  /\ result = "none"
  /\ pos < Len(text)
  /\ pos' = pos + 1
  /\ Consume(text[pos + 1])
  /\ UNCHANGED text

-------------------------------------------------------------------------------
(* What the parser is for, said without it.                                *)

Crlf == <<"cr", "lf">>

\* A line break that white space follows: the next line continues this one.
Continues(t, h) ==
  h + 2 <= Len(t) /\ t[h] = "cr" /\ t[h + 1] = "lf" /\ t[h + 2] \in Lws

\* The value of a header goes on up to i: its line, or one that this line
\* continues, has the ": " that a value begins with.
InValue(t, i) ==
  \E g \in 1 .. i - 1 : \E j \in g + 1 .. i - 2 :
    /\ t[g] = "cr" /\ t[j] = ":" /\ t[j + 1] = "sp"
    /\ \A h \in g + 1 .. i - 1 : t[h] = "cr" => Continues(t, h)

\* A value that another line continues is folded there: the line break and the
\* white space that follows it are no part of the request.
Fold(t, f) == Continues(t, f) /\ InValue(t, f)

InFold(t, i) ==
  \E f \in 1 .. i : /\ Fold(t, f)
                    /\ \A j \in f + 2 .. i : t[j] \in Lws

Keep(kept, t, n) == IF InFold(t, n) THEN kept ELSE Append(kept, t[n])

Unfold(t) ==
  LET kept[n \in 0 .. Len(t)] == IF n = 0 THEN <<>> ELSE Keep(kept[n - 1], t, n)
  IN  kept[Len(t)]

\* The text of a request, without folds.
HeaderText(h) == h.name \o <<":", "sp">> \o h.value \o Crlf

HeadersText(headers) ==
  LET lines[n \in 0 .. Len(headers)] ==
        IF n = 0 THEN <<>> ELSE lines[n - 1] \o HeaderText(headers[n])
  IN  lines[Len(headers)]

RequestText(r) ==
  r.method \o <<"sp">> \o r.uri \o <<"sp", "H", "T", "T", "P", "/">>
    \o r.major \o <<".">> \o r.minor \o Crlf
    \o HeadersText(r.headers) \o Crlf

\* What stands from i up to j, and how much of it there must be.
Only(u, i, j, chars) == \A k \in i .. j - 1 : u[k] \in chars
Filled(u, i, j, chars) == i < j /\ Only(u, i, j, chars)
Reading(u, i, chars) == \A k \in DOMAIN chars : u[i + k - 1] = chars[k]

\* METHOD SP URI SP HTTP/n.n, from the first character up to the e-th.
IsRequestLine(u, e) ==
  \E i, j, k \in 1 .. e - 1 :
    /\ u[i] = "sp" /\ Filled(u, 1, i, Token)
    /\ i < j /\ u[j] = "sp" /\ Only(u, i + 1, j, NotCtl \ {"sp"})
    /\ j + 5 < k /\ Reading(u, j + 1, <<"H", "T", "T", "P", "/">>)
    /\ u[k] = "." /\ Filled(u, j + 6, k, Digit) /\ Filled(u, k + 1, e, Digit)

\* NAME ":" SP VALUE, from the a-th character up to the e-th.
IsHeader(u, a, e) ==
  \E i \in a .. e - 2 :
    /\ Filled(u, a, i, Token)
    /\ u[i] = ":" /\ u[i + 1] = "sp"
    /\ Only(u, i + 2, e, NotCtl)

\* A line from a up to its line break at e.
IsLine(u, a, e) ==
  (a = 1 \/ u[a - 1] = "lf") /\ u[e] = "cr" /\ \A k \in a .. e - 1 : u[k] # "cr"

\* A request line, headers and an empty line, each ended by CRLF.
IsUnfoldedRequest(u) ==
  LET n == Len(u)
  IN  /\ n > 2 /\ u[n - 2] = "lf" /\ u[n - 1] = "cr"
      /\ \A i \in 1 .. n : u[i] = "cr" => i < n /\ u[i + 1] = "lf"
      /\ \A i \in 1 .. n : u[i] = "lf" => i > 1 /\ u[i - 1] = "cr"
      /\ \A e \in 1 .. n - 2 : u[e] = "cr" =>
           \A a \in 1 .. e :
             IsLine(u, a, e) => IF a = 1 THEN IsRequestLine(u, e) ELSE IsHeader(u, a, e)

IsRequest(t) == t # <<>> /\ t[Len(t)] = "lf" /\ IsUnfoldedRequest(Unfold(t))

Consumed(n) == SubSeq(text, 1, n)

\* The parser accepts at the first byte that completes a request, no earlier
\* and no later, and rejects only what no further byte could complete.
AcceptsExactlyRequests ==
  /\ result = "true" <=> IsRequest(Consumed(pos))
  /\ result = "false" => \A n \in pos .. Len(text) : ~IsRequest(Consumed(n))

\* An accepted HttpRequest is the text that was read, folds taken out: no
\* character is lost, invented or put in another field.
RequestIsItsText ==
  result = "true" => RequestText(req) = Unfold(Consumed(pos))
===============================================================================
