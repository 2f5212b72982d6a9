----------------------------- MODULE MCHttpQuery -----------------------------
(***************************************************************************)
(* HttpQuery for the requests of index.html and for all requests of up to  *)
(* three parameters out of a few.  A letter here is a piece of a name: the *)
(* names asked for can be split in two.                                    *)
(***************************************************************************)
EXTENDS HttpQuery

Pieces == {"player_", "name", "rand", "key", "token_", "id", "op", "er",
           "start", "left", "text"}

PlayerNamePieces == <<"player_", "name">>
RandKeyPieces == <<"rand", "key">>
TokenIdPieces == <<"token_", "id">>
OperPieces == <<"op", "er">>
StartPieces == <<"start">>

Param(n, v) == [name |-> n, value |-> v]

\* What a player may have typed, or the page may hold as its token.
Texts ==
  {<<>>, <<"text">>, <<"text", "=", "start">>, <<"=", "text">>, <<"text", "&", "text">>}

\* The addresses of start_tetris_game and operator_game in index.html; its key is
\* always 100, but other clients choose theirs.
PageRequests ==
  {<<Param(PlayerNamePieces, p), Param(RandKeyPieces, r), Param(OperPieces, StartPieces)>> :
     p \in Texts, r \in Texts}
    \cup {<<Param(TokenIdPieces, t), Param(OperPieces, o)>> :
            t \in Texts, o \in {<<"left">>, <<"text">>}}

SomeParams ==
  {Param(n, v) : n \in {OperPieces, TokenIdPieces},
                 v \in {<<>>, <<"left">>, <<"text", "=", "left">>}}
    \cup {Param(TokenIdPieces \o OperPieces, <<"left">>), Param(<<"text">>, <<>>),
          Param(<<"op">>, <<>>), Param(<<"er">>, <<"left">>),
          Param(<<"text">>, <<"left", "&", "er", "=", "text">>)}

ManyRequests ==
  UNION {[1..n -> SomeParams] : n \in 0..3}

AllRequests == PageRequests \cup ManyRequests
=============================================================================
