------------------------------ MODULE HttpRequest ------------------------------
(***************************************************************************)
(* HttpRequest::parse_uri(), which the connection calls on whatever the    *)
(* parser left in the request, and the look-up of query parameters by      *)
(* which handlers choose the stream and its options.  Where names are      *)
(* compared a class of characters stands for one character of it.          *)
(***************************************************************************)
EXTENDS HttpRequestParser, SequencesExt

VARIABLES
  uri_parsed,               \* parse_uri() was called
  path,                     \* path
  query,                    \* query
  query_params              \* query_params: names to values

uriVars == <<uri_parsed, path, query, query_params>>
requestVars == <<parserVars, uriVars>>

RequestInit ==
  /\ ParserInit
  /\ uri_parsed = FALSE
  /\ path = <<>>
  /\ query = <<>>
  /\ query_params = <<>>

\* split_string(): every delimiter ends a token, and so does the end of the
\* input, unless nothing is behind the last delimiter.
TokenEnds(input, delim) ==
  {i \in DOMAIN input : input[i] = delim}
    \cup (IF input = <<>> \/ Last(input) = delim THEN {} ELSE {Len(input) + 1})

\* The token that ends at e begins behind the delimiter before it, if any.
TokenStart(input, delim, e) ==
  CHOOSE i \in 1 .. e : /\ i = 1 \/ input[i - 1] = delim
                        /\ \A k \in i .. e - 1 : input[k] # delim

\* Where a string is cut in two: at the first such character, or at its end.
CutAt(input, delim) ==
  CHOOSE i \in 1 .. Len(input) + 1 : /\ i = Len(input) + 1 \/ input[i] = delim
                                     /\ \A k \in 1 .. i - 1 : input[k] # delim

Before(input, cut) == SubSeq(input, 1, cut - 1)
Behind(input, cut) == SubSeq(input, cut + 1, Len(input))

\* query_params[name] = value
SetParam(params, name, value) ==
  [n \in DOMAIN params \cup {name} |-> IF n = name THEN value ELSE params[n]]

\* Slip: a name keeps the first value it is given.
AddPairOnce(params, pair) ==
  LET eq == CutAt(pair, "=")
  IN  IF pair = <<>> \/ Before(pair, eq) \in DOMAIN params THEN params
      ELSE SetParam(params, Before(pair, eq), Behind(pair, eq))

\* An empty pair is nothing; else a name without "=" has the empty value, and
\* a name given again has the value it was given last.
AddPair(params, pair) ==
  LET eq == CutAt(pair, "=")
  IN  IF pair = <<>> THEN params
      ELSE SetParam(params, Before(pair, eq), Behind(pair, eq))

\* The pairs of a query, taken one token after the other.
QueryParams(input) ==
  LET params[n \in 0 .. Len(input) + 1] ==
        IF n = 0 THEN <<>>
        ELSE IF n \in TokenEnds(input, "&")
        THEN AddPair(params[n - 1], SubSeq(input, TokenStart(input, "&", n), n - 1))
        ELSE params[n - 1]
  IN  params[Len(input) + 1]

\* parse_uri(), when the parser is through with the request.
ParseUri ==
  LET mark == CutAt(req.uri, "?")
  IN  /\ result # "none"
      /\ ~uri_parsed
      /\ uri_parsed' = TRUE
      /\ path' = Before(req.uri, mark)
      /\ query' = Behind(req.uri, mark)
      /\ query_params' = QueryParams(query')
      /\ UNCHANGED parserVars

\* get_query_param_value_or_default()
GetQueryParamValueOrDefault(name, default) ==
  IF name \in DOMAIN query_params THEN query_params[name] ELSE default

RequestNext == (Parse /\ UNCHANGED uriVars) \/ ParseUri

RequestSpec == RequestInit /\ [][RequestNext]_requestVars

-------------------------------------------------------------------------------

\* The stretches of the URI between its first "?", its "&"s and its end.
Stretches(uri) ==
  { e \in (1 .. Len(uri)) \X (1 .. Len(uri)) :
      /\ e[1] <= e[2]
      /\ \E i \in 1 .. e[1] - 1 : uri[i] = "?"
      /\ \A i \in e[1] .. e[2] : uri[i] # "&"
      /\ uri[e[1] - 1] = "&" \/ (uri[e[1] - 1] = "?" /\ \A i \in 1 .. e[1] - 2 : uri[i] # "?")
      /\ e[2] = Len(uri) \/ uri[e[2] + 1] = "&" }

\* What a name is given in a stretch: the value after "name=", or, for the
\* name alone, nothing.
Gives(stretch, name, value) ==
  /\ \A i \in DOMAIN name : name[i] # "="
  /\ stretch = name \o <<"=">> \o value \/ (stretch = name /\ value = <<>>)

\* A handler that asks for a parameter gets what the text of the URI gives it
\* last, up to the next "&" and with every "=" but the first, and the default
\* exactly if the URI does not give it, for any name.
ParamsAreTheQuery ==
  uri_parsed =>
    LET uri == req.uri
        part(e) == SubSeq(uri, e[1], e[2])
    IN  \A name \in SubSeqs(uri) :
          LET answer == GetQueryParamValueOrDefault(name, <<"absent">>)
              given == {e \in Stretches(uri) : \E value \in SubSeqs(uri) : Gives(part(e), name, value)}
          IN  IF given = {} THEN answer = <<"absent">>
              ELSE \E e \in given : /\ \A d \in given : d[1] <= e[1]
                                    /\ Gives(part(e), name, answer)
===============================================================================
