----------------------------- MODULE MCNatscope -------------------------------
(***************************************************************************)
(* The small instance of Natscope that TLC checks.                         *)
(***************************************************************************)
EXTENDS Natscope

\* The three stored messages a viewer walks: a readable body, one that has
\* to be fetched whole, one whose preview was cut.
MCVwKind == <<"json", "binary", "partial">>

\* Two queries, one read towards each end of the stream.
MCMsQueries == {[matches |-> {2, 3, 4, 5}, direction |-> "forward"],
                [matches |-> {1, 2, 4, 5}, direction |-> "backward"]}

\* Two subjects whose type the stream knows and one it does not.
MCPbTypeOf == "a" :> "T" @@ "b" :> "U" @@ "c" :> "none"

\* One subject has a request type, whose answer is of a type of its own.
MCRqTypeOf == "a" :> "AReq" @@ "b" :> "none"
MCRqGuess == "AReq" :> "T"

\* A work queue's habits, a live tail's, and those of a consumer that is sent
\* what it does not acknowledge again: where each starts, what it acknowledges,
\* and which subjects it takes.
MCHcPinned ==
    {[policy |-> "last", ack |-> "explicit", maxDeliver |-> 1, maxOut |-> 0, push |-> FALSE, filter |-> "odd"],
     [policy |-> "new", ack |-> "none", maxDeliver |-> 0, maxOut |-> 2, push |-> TRUE, filter |-> "all"],
     [policy |-> "last", ack |-> "all", maxDeliver |-> 0, maxOut |-> 2, push |-> FALSE, filter |-> "odd"]}

\* Two sources, the directory of one below that of the other, which has room
\* for a directory in a directory.
MCFwParent == "s" :> "r" @@ "n" :> "s" @@ "m" :> "n"
MCFwRoot == "a" :> "r" @@ "b" :> "s"

\* Likewise for the areas of the web client.
WebView ==
    CASE webArea = "subscribe" -> <<webArea, lvVars>>
      [] webArea = "search" -> <<webArea, msVars>>
      [] webArea = "list" -> <<webArea, mlVars>>
      [] webArea = "message" -> <<webArea, vwVars>>
      [] webArea = "table" -> <<webArea, mtVars>>
      [] webArea = "publish" -> <<webArea, pbVars>>
      [] webArea = "request" -> <<webArea, rqVars>>
      [] webArea = "templates" -> <<webArea, tpVars>>
      [] webArea = "watch" -> <<webArea, kwVars>>
      [] webArea = "bucket" -> <<webArea, kvVars>>
      [] webArea = "config" -> <<webArea, scVars>>
      [] webArea = "consumers" -> <<webArea, ctVars>>
      [] webArea = "consumer" -> <<webArea, hcVars>>
      [] webArea = "connection" -> <<webArea, ceVars>>
      [] webArea = "connections" -> <<webArea, csVars>>
      [] webArea = "objects" -> <<webArea, obVars>>
      [] webArea = "protos" -> <<webArea, psVars>>

\* Goroutines are alike: states that differ only in which does what are one.  Of
\* the age of a schema only which others are younger matters.
PvView ==
    <<pvType, pvDoc, pvFiles, {<<s, {t.rev : t \in {u \in pvSchemas : pvAge[u.rev] < pvAge[s.rev]}}>> : s \in pvSchemas}, pvReg, pvNow, pvWatch, pvLive, pvOps, pvLost,
      {<<pvWork[w], pvLock = w>> : w \in PvWorkers}>>

\* States that differ only in the parts that are not looked at are one state.
NatView ==
    CASE natPart = "web" -> <<natPart, WebView>>
      [] natPart = "protos" -> <<natPart, PvView>>
      [] natPart = "files" -> <<natPart, fwVars>>
      [] natPart = "secrets" -> <<natPart, vtVars>>
      [] natPart = "bucket" -> <<natPart, skVars>>
=============================================================================
