--------------------------- MODULE MCModuleLoader ---------------------------
(* Small instances of ModuleLoader for TLC. *)
EXTENDS ModuleLoader, TLC

P(s) == Piece(s)
F(s, e) == [Piece(s) EXCEPT !.ext = e]
Q(p) == [p EXCEPT !.query = "?q"]

MCScript == <<P("w"), F("main", ".js")>>

Base == (<<P("w")>> :> "dir") @@ (MCScript :> "file")

(* A file with two extensions and a directory module, and a file system in *)
(* which a file is unreadable and a module lives in the root directory.    *)
MCFileSystems ==
  { Base @@ (<<P("w"), F("a", ".mjs")>> :> "file") @@ (<<P("w"), F("a", ".js")>> :> "file")
         @@ (<<P("w"), P("lib")>> :> "dir") @@ (<<P("w"), P("lib"), F("index", ".js")>> :> "file"),
    Base @@ (<<P("w"), F("a", ".js")>> :> "unreadable") @@ (<<F("b", ".js")>> :> "file") }

(* The script, also with a loader and with a quotation mark in its path,   *)
(* one that is not there, and the other command lines.                     *)
MCInvocations ==
  { [kind |-> "script", script |-> MCScript, loaders |-> {}],
    [kind |-> "script", script |-> MCScript, loaders |-> {<<Dot, P("a")>>}],
    [kind |-> "script", script |-> <<P("w"), F("b", ".js")>>, loaders |-> {}],
    [kind |-> "quoted", script |-> MCScript, loaders |-> {}],
    [kind |-> "help", script |-> <<>>, loaders |-> {}],
    [kind |-> "invalid", script |-> <<>>, loaders |-> {}] }

MCSpecifiers ==
  { <<Dot, P("a")>>,
    <<Dot, P("lib")>>,
    <<P("lib"), DotDot, F("a", ".js")>>,
    <<DotDot, DotDot, P("b")>>,
    <<Empty, P("w"), Q(P("a"))>>,
    <<P("http:"), Empty, P("h"), P("m")>> }

MCUrls == {Url(<<Empty, P("h"), P("m")>>)}
=============================================================================
