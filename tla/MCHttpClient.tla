---------------------------- MODULE MCHttpClient ----------------------------
(***************************************************************************)
(* Values for the constants of HttpClient.                                 *)
(***************************************************************************)
EXTENDS HttpClient

PortalTitle == <<"Portal">>

(* Every page of at most three tokens, and longer ones in which an element *)
(* with or without a text comes before another, or a closing tag only.     *)
Token      == {"<title>", "</title>", "Portal"}
EmptyTitle == <<"<title>", "</title>">>
TwoTitles  == EmptyTitle \o <<"newline">> \o BackendPage

SomePages ==
    {BackendPage, BackendPage \o BackendPage, TwoTitles, Tail(TwoTitles),
     Append(EmptyTitle, "</title>"), EmptyTitle \o <<"newline", "</title>">>}
    \cup UNION {[1..n -> Token] : n \in 0..3}
=============================================================================
