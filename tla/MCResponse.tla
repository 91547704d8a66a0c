----------------------------- MODULE MCResponse -----------------------------
(***************************************************************************)
(* Three families: documents three levels deep under lists of up to three  *)
(* dotted names; documents under every mapping of three keys, onto keys in *)
(* use and not; every combination of outcome, static strategy, error       *)
(* handler, router and output encoding.                                    *)
(***************************************************************************)
EXTENDS Response, TLC

PlainFormat == [target |-> <<>>, allow |-> <<>>, deny |-> <<>>, mapping |-> <<>>, group |-> ""]
PlainEndpoint ==
  [router |-> "gin", output |-> "json", encoding |-> "json", onError |-> "default", static |-> "none",
   format |-> PlainFormat]
MCNames == {"a", "b", "c", "d", "e", "content", "collection"}

Good(d) == [status |-> 200, decodes |-> TRUE, doc |-> d]

\* The dictionaries with one of the values xs under a and one of ys under b;
\* Nil stands for no entry.
Pairs(xs, ys) ==
  {Dict([k \in {l \in {"a", "b"} : (IF l = "a" THEN x ELSE y) # Nil} |-> IF k = "a" THEN x ELSE y]) :
     x \in xs, y \in ys}

Ones  == Pairs({Nil, Leaf("1"), EmptyDict}, {Nil, Leaf("2"), Dict("a" :> Leaf("3") @@ "b" :> Leaf("4"))})
Trees == Pairs({Nil, Leaf("5")} \cup Ones, {Nil, Leaf("6"), EmptyDict, Dict("a" :> Leaf("7"))})

Dotted == {<<"a">>, <<"b">>, <<"a", "a">>, <<"a", "b">>, <<"b", "a">>, <<"a", "b", "a">>}
Lists == {<<>>} \cup {<<p>> : p \in Dotted} \cup {<<p, q>> : p, q \in Dotted}
         \cup {<<<<"a", "b">>, <<"a">>, <<"a", "b", "a">>>>, <<<<"a", "b", "a">>, <<"a">>, <<"a", "b">>>>}

Filters ==
  {<<[PlainEndpoint EXCEPT !.format.target = t, !.format.allow = IF w THEN l ELSE <<>>,
        !.format.deny = IF w THEN <<>> ELSE l], Good(d)>> :
     t \in {<<>>, <<"a">>, <<"a", "b">>}, w \in BOOLEAN, l \in Lists, d \in Trees}

Flat == {Dict([k \in ks |-> Leaf(k)]) : ks \in SUBSET {"a", "b", "c"}}
Mappings == UNION {[ks -> {<<"a">>, <<"b">>, <<"d">>, <<"e", "a">>}] : ks \in SUBSET {"a", "b", "c"}}
Renames ==
  {<<[PlainEndpoint EXCEPT !.format.mapping = m, !.format.group = g], Good(d)>> :
     m \in Mappings, g \in {"", "e"}, d \in Flat}

Outcomes ==
  {[status |-> s, decodes |-> c, doc |-> d] :
     s \in {0, 200, 302, 404}, c \in BOOLEAN,
     d \in {EmptyDict, Dict("a" :> Leaf("1") @@ "content" :> Leaf("2")), Dict("collection" :> Leaf("3"))}}
\* The output encodings over a JSON backend, and those that another backend's
\* encoding makes a difference for.
Encodings ==
  {<<o, "json">> : o \in {"json", "yaml", "string", "xml", "json-collection", "negotiate", "other"}}
    \cup {<<"no-op", "no-op">>, <<"json", "no-op">>, <<"xml", "no-op">>, <<"xml", "string">>,
          <<"other", "string">>, <<"other", "xml">>, <<"negotiate", "other">>}
Paths2Client ==
  {<<[PlainEndpoint EXCEPT !.router = r, !.output = o[1], !.encoding = o[2], !.onError = e,
        !.static = s], a>> :
     r \in {"gin", "mux"}, e \in {"default", "code", "details"}, o \in Encodings,
     s \in {"none", "always", "success", "errored", "complete", "incomplete"}, a \in Outcomes}

MCGiven == Filters \cup Renames \cup Paths2Client
=============================================================================
