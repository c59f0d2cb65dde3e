---------------------------- MODULE MCApiHistory ----------------------------
(* Instances of ApiHistory for TLC.                                        *)
EXTENDS ApiHistory

CONSTANTS a, b, Get, Post, Put

Field(type, required) == [type |-> type, format |-> "", required |-> required]
Body == Field("object", FALSE)
Null == <<>>

\* Bodies: flat ones, and one with an object inside an array.
Text == [p \in {<<>>, <<"x">>} |->
           IF p = <<>> THEN Body ELSE Field("string", FALSE)]
Number == [p \in {<<>>, <<"x">>} |->
             IF p = <<>> THEN Body ELSE Field("number", FALSE)]
Demands == [p \in {<<>>, <<"x">>, <<"y">>} |->
              IF p = <<>> THEN Body
              ELSE Field("string", p = <<"y">>)]
Nested(last) ==
  [p \in {<<>>, <<"x">>, <<"o">>, <<"o", Item>>, last} |->
     CASE p = <<>> -> Body
       [] p = <<"o">> -> Field("array", FALSE)
       [] p = <<"o", Item>> -> Body
       [] OTHER -> Field("string", FALSE)]

\* An empty object, and arrays that have no items or empty ones.
Empty == [p \in {<<>>} |-> Body]
List == [p \in {<<>>, <<"o">>} |-> IF p = <<>> THEN Body ELSE Field("array", FALSE)]
ListOfEmpty == [p \in {<<>>, <<"o">>, <<"o", Item>>} |->
                  IF p = <<"o">> THEN Field("array", FALSE) ELSE Body]

Route(method, path, place, request, response) ==
  [method |-> method, path |-> path, place |-> place, auth |-> "none",
   guards |-> {}, params |-> <<>>, request |-> request, response |-> response]

Plain == Route(Get, a, 1, Null, Text)
Moved == Route(Get, a, 2, Null, Text)
Closed == [Plain EXCEPT !.auth = "user"]
OfB == Route(Get, b, 3, Null, Text)

\* One query parameter, and a guard that asks for no login.
Asking(required) ==
  [Plain EXCEPT !.params = [x \in {"q"} |-> [type |-> "string", required |-> required]]]
Guarded == [Plain EXCEPT !.guards = {"Throttler"}]

\* Text with a date that is always there.
Date == [Text EXCEPT ![<<"x">>].format = "date-time", ![<<"x">>].required = TRUE]

Bodies == {Null, Text, Number, Demands, Nested(<<"o", Item, "k">>),
           Nested(<<"o", Item, "l">>), Empty, List, ListOfEmpty, Date}

\* One route with many contracts.
Single ==
  {<<Plain>>, <<Moved>>, <<Closed>>, <<Guarded>>,
   <<Asking(FALSE)>>, <<Asking(TRUE)>>}
    \cup {<<Route(Post, a, 1, q, Text)>> : q \in Bodies}
    \cup {<<Route(Put, a, 1, Text, r)>> : r \in {Null, Text, Demands, ListOfEmpty}}

\* Several routes, with shared paths and shared identities.
Several ==
  {<<>>, <<OfB>>, <<Plain, OfB>>,
   <<Plain, Route(Post, a, 1, Text, Null)>>,
   <<Route(Post, a, 1, Text, Null), Route(Put, a, 1, Text, Null)>>,
   <<Plain, Closed>>}

\* The third scan compares everything with everything; the first finds one
\* branch and the retries another.
AllCommits ==
  [r \in Runs |-> IF r[2] = 2 THEN {<<Plain, OfB>>}
                  ELSE IF r[1] = 1 THEN {<<Plain>>} ELSE Single \cup Several]

\* A file in a folder and the ways to refer to another one.
Seg(stem, ext) == [stem |-> stem, ext |-> ext]
Import(up, down) == [kind |-> "IMPORT", local |-> TRUE, up |-> up, down |-> down]
Package == [Import(0, <<Seg("lib", "")>>) EXCEPT !.local = FALSE]

Main == <<Seg("src", ""), Seg("main", "ts")>>
Index == <<Seg("src", ""), Seg("util", ""), Seg("index", "js")>>
Twin(ext) == <<Seg("src", ""), Seg("view", ext)>>

\* A folder, a file of either extension, one above the root, one with a dot in
\* its name, one from the folder itself, and a package.
Imports ==
  {Import(0, <<Seg("util", "")>>), Import(0, <<Seg("view", "")>>),
   Import(2, <<Seg("main", "")>>), Import(0, <<Seg("user", "service")>>),
   [Import(1, <<Seg("src", ""), Seg("util", "")>>) EXCEPT !.kind = "EXPORT"],
   Package}

\* The second attempt at the first scan finds fewer files and another one;
\* later scans find little.
AllCode ==
  [r \in Runs |->
     CASE r = <<1, 1>> ->
            [p \in {Main, Index, Twin("ts"), Twin("tsx")} |->
               CASE p = Main -> Imports
                 [] p = Index -> {Import(1, <<Seg("view", "")>>),
                                  Import(2, <<Seg("src", ""), Seg("main", "")>>)}
                 [] OTHER -> {}]
       [] r = <<1, 2>> ->
            [p \in {Main, Twin("jsx")} |-> IF p = Main THEN Imports ELSE {}]
       [] OTHER ->
            [p \in {Main, Twin("ts")} |->
               IF p = Main THEN {Import(0, <<Seg("view", "")>>)} ELSE {}]]

EachOnce == [d \in Disturbances |-> 1]
=============================================================================
