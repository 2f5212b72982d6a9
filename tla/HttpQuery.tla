------------------------------- MODULE HttpQuery -------------------------------
(***************************************************************************)
(* HttpQueryParameter: how the query of a request becomes parameters, and  *)
(* what ProcessGame makes of them.  A query is a sequence of symbols: "=", *)
(* "&", and letters.  An action of Parse is one round of an inner loop, or *)
(* the end of the second one.                                              *)
(***************************************************************************)
EXTENDS Naturals, Sequences

CONSTANTS
  Letters,                            \* the symbols other than "=" and "&"
  PlayerName, RandKey, TokenId, Oper, \* the names the server asks for
  Start,                              \* the value of Oper that starts a game
  Requests                            \* the requests made, sequences of parameters

Symbols == Letters \cup {"=", "&"}
Parameters == [name : Seq(Symbols), value : Seq(Symbols)]

ASSUME LettersAssumption == "=" \notin Letters /\ "&" \notin Letters

Asked == {PlayerName, RandKey, TokenId, Oper}

\* The end of s is t.
EndsIn(s, t) ==
  Len(t) <= Len(s) /\ \A j \in 1..Len(t) : s[Len(s) - Len(t) + j] = t[j]

ASSUME NamesAssumption ==
  /\ Asked \cup {Start} \subseteq Seq(Letters) \ {<<>>}
  /\ PlayerName \notin {RandKey, TokenId, Oper}
  /\ RandKey \notin {TokenId, Oper} /\ TokenId # Oper
  /\ \A a, b \in Asked : EndsIn(a, b) => a = b

\* What a client writes for one parameter: a name, and a value of any symbols.
Fields == [name : Seq(Letters) \ {<<>>}, value : Seq(Symbols)]

ASSUME RequestsAssumption == Requests \subseteq Seq(Fields)

\* A client writes name=value for each parameter, and & between two of them:
\* what it has written after n parameters.
Field(p) == p.name \o <<"=">> \o p.value

Written(params) ==
  LET q[n \in 0..Len(params)] ==
        IF n = 0 THEN <<>>
        ELSE (IF n = 1 THEN <<>> ELSE Append(q[n - 1], "&")) \o Field(params[n])
  IN  q

Encode(params) == Written(params)[Len(params)]

VARIABLES
  request,           \* what the client means
  query,             \* what it sends
  index, key, value, \* the variables of Parse
  loop,              \* the inner loop of Parse that runs, or "done"
  stored             \* key_values_

vars == <<request, query, index, key, value, loop, stored>>

TypeOK ==
  /\ request \in Requests
  /\ query = Encode(request)
  /\ index \in 1..Len(query) + 1
  /\ key \in Seq(Symbols)
  /\ value \in Seq(Symbols)
  /\ loop \in {"name", "value", "done"}
  /\ loop = "done" => index > Len(query)
  /\ stored \subseteq Parameters
  /\ \A p, q \in stored : p.name = q.name => p = q

Init ==
  /\ request \in Requests
  /\ query = Encode(request)
  /\ index = 1
  /\ key = <<>>
  /\ value = <<>>
  /\ loop = "name"
  /\ stored = {}

AtEnd == index > Len(query)

NameSymbol ==
  /\ loop = "name"
  /\ ~AtEnd
  /\ query[index] # "="
  /\ key' = Append(key, query[index])
  /\ index' = index + 1
  /\ UNCHANGED <<request, query, value, loop, stored>>

NameEnds ==
  /\ loop = "name"
  /\ ~AtEnd
  /\ query[index] = "="
  /\ index' = index + 1
  /\ loop' = "value"
  /\ UNCHANGED <<request, query, key, value, stored>>

\* Mutant of ValueSymbol: a "=" in a value is dropped.
ValueSymbol_DropsEquals ==
  /\ loop = "value"
  /\ ~AtEnd
  /\ query[index] # "&"
  /\ value' = IF query[index] = "=" THEN value ELSE Append(value, query[index])
  /\ index' = index + 1
  /\ UNCHANGED <<request, query, key, loop, stored>>

ValueSymbol ==
  /\ loop = "value"
  /\ ~AtEnd
  /\ query[index] # "&"
  /\ value' = Append(value, query[index])
  /\ index' = index + 1
  /\ UNCHANGED <<request, query, key, loop, stored>>

Names(params) == {p.name : p \in params}

\* Mutant of Store: stores without looking whether the name is there.
Store_Again ==
  \/ /\ key # <<>> /\ value # <<>>
     /\ stored' = stored \cup {[name |-> key, value |-> value]}
     /\ key' = <<>> /\ value' = <<>>
  \/ /\ key = <<>> \/ value = <<>>
     /\ UNCHANGED <<key, value, stored>>

\* Mutant of Store: the value is not cleared.
Store_KeepsValue ==
  \/ /\ key # <<>> /\ value # <<>>
     /\ stored' = IF key \in Names(stored) THEN stored
                  ELSE stored \cup {[name |-> key, value |-> value]}
     /\ key' = <<>> /\ UNCHANGED value
  \/ /\ key = <<>> \/ value = <<>>
     /\ UNCHANGED <<key, value, stored>>

\* std::map::insert keeps what it has.  If the name or the value is empty, the
\* other is not stored, and not cleared either: the next one is added to it.
Store ==
  \/ /\ key # <<>> /\ value # <<>>
     /\ stored' = IF key \in Names(stored) THEN stored
                  ELSE stored \cup {[name |-> key, value |-> value]}
     /\ key' = <<>> /\ value' = <<>>
  \/ /\ key = <<>> \/ value = <<>>
     /\ UNCHANGED <<key, value, stored>>

\* The second inner loop ends, at a "&" or with the query.
FieldEnds ==
  /\ \/ loop = "value" /\ ~AtEnd /\ query[index] = "&" /\ index' = index + 1
     \/ loop # "done" /\ AtEnd /\ UNCHANGED index
  /\ loop' = IF index' > Len(query) THEN "done" ELSE "name"
  /\ Store
  /\ UNCHANGED <<request, query>>

Next ==
  \/ NameSymbol
  \/ NameEnds
  \/ ValueSymbol
  \/ FieldEnds

Spec == Init /\ [][Next]_vars
-----------------------------------------------------------------------------
GetKey(params, name) ==
  LET found == {p \in params : p.name = name}
  IN  IF found = {} THEN <<>> ELSE (CHOOSE p \in found : TRUE).value

\* What ProcessGame does with a request.
Dispatch(params) ==
  IF GetKey(params, Oper) = Start
  THEN IF GetKey(params, PlayerName) = <<>> \/ GetKey(params, RandKey) = <<>>
       THEN <<"error">>
       ELSE <<"start", GetKey(params, PlayerName)>>
  ELSE IF GetKey(params, TokenId) = <<>> \/ GetKey(params, Oper) = <<>>
       THEN <<"error">>
       ELSE <<"operate", GetKey(params, TokenId), GetKey(params, Oper)>>

\* The parameters a request means, the first of each name; an empty one is none.
Meant ==
  {request[i] : i \in {j \in 1..Len(request) :
     /\ request[j].value # <<>>
     /\ \A k \in 1..j - 1 : request[k].name # request[j].name}}

\* No name comes twice.
OneOfEach(params) ==
  \A i, j \in 1..Len(params) : params[i].name = params[j].name => i = j

\* No value has a "&" in it: the page does not encode one, and it ends the value.
Unbroken(params) ==
  \A i \in 1..Len(params) : \A j \in 1..Len(params[i].value) : params[i].value[j] # "&"

\* No name is only the end of a name asked for, which the rest of it may precede.
NoneEnds(params) ==
  \A i \in 1..Len(params), a \in Asked : EndsIn(a, params[i].name) => params[i].name = a

\* start_tetris_game and operator_game in index.html, whatever their texts are.
Named(params, names) ==
  Len(params) = Len(names) /\ \A i \in 1..Len(names) : params[i].name = names[i]

StartsGame(params) ==
  Named(params, <<PlayerName, RandKey, Oper>>) /\ params[3].value = Start

OperatesGame(params) == Named(params, <<TokenId, Oper>>)
-----------------------------------------------------------------------------
\* If no parameter is empty and none has a "&" in it, the server reads exactly
\* what the client means, values with a "=" in them and names that come twice
\* included.
ProperRequestsAreRead ==
  loop = "done" /\ Unbroken(request)
      /\ (\A i \in 1..Len(request) : request[i].value # <<>>) =>
    stored = Meant

\* An empty parameter leaves its name to precede the next one.  Still, without a
\* "&" in a value, what is stored is a whole value of the request, under a name
\* that ends in the one the client gave it.
NothingMisattributed ==
  Unbroken(request) =>
    \A p \in stored : \E i \in 1..Len(request) :
      EndsIn(p.name, request[i].name) /\ p.value = request[i].value

\* A request spoilt by an empty parameter may be refused although it means
\* something, but it does not become another call, or the call with another token
\* or player.  Nothing is promised if a value has a "&" in it, or if names of the
\* client run together to one asked for, as "op" and "er" do to "oper".
UnderstoodOrRefused ==
  loop = "done" /\ Unbroken(request) /\ OneOfEach(request) /\ NoneEnds(request) =>
    Dispatch(stored) \in {Dispatch(Meant), <<"error">>}

\* The requests of the page are answered as they are meant, empty texts and texts
\* with a "=" included, and refused only if they mean nothing; again if no text
\* has a "&" in it, which the page would not encode.
PageIsUnderstood ==
  loop = "done" /\ Unbroken(request) /\ (StartsGame(request) \/ OperatesGame(request)) =>
    Dispatch(stored) = Dispatch(Meant)
=============================================================================
