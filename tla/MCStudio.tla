------------------------------ MODULE MCStudio ------------------------------
(* A ChangeSet between the daemon and Studio, each part explored by        *)
(* itself: its life in the daemon, what a person is shown of it, the       *)
(* plugin's transports, and the operations on the place.                   *)
EXTENDS MCDaemon, Review, StudioLink, Place

VARIABLE part   \* which of them a behaviour is about

(* Review: every kind of operation, inside and outside the scope, with     *)
(* every way to carry code, start it or refer to something.                *)
MCPlaces == {<<"a">>, <<"c">>}
MCTexts == [t : {"String"}, v : {"clean", "suspect", "unsafe"}] \cup {[t |-> "Number"]}
MCFlags == [t : {"Bool"}, v : {"true", "false"}] \cup {[t |-> "String", v |-> "true"]}
MCRefs == [t : {"InstanceRef"}, path : MCPlaces] \cup {[t |-> "Number"]}
MCBags == [{"Source"} -> MCTexts] \cup [{"Disabled"} -> MCFlags] \cup [{"Enabled"} -> MCFlags]
            \cup [{"RunContext"} -> {[t |-> "EnumItem"]}] \cup [{"Link"} -> MCRefs]
MCReviewable ==
    [op : {"deleteInstance"}, path : MCPlaces, bag : {<<>>}]
      \cup [op : {"moveInstance"}, path : MCPlaces, to : MCPlaces, bag : {<<>>}]
      \cup [op : {"writeScript"}, path : MCPlaces, bag : [{"Source"} -> MCTexts \ {[t |-> "Number"]}]]
      \cup [op : {"setProperty"}, path : {<<"a">>}, bag : MCBags]
      \cup [op : {"setProperty"}, path : {<<"c">>}, bag : [{"Link"} -> MCRefs]]
      \cup [op : {"createInstance"}, path : {<<"a">>}, bag : {<<>>} \cup MCBags]
      \cup [op : {"createInstance"}, path : {<<"a">>},
            bag : [{"Source", "Link"} -> [t : {"InstanceRef"}, path : MCPlaces]]]
MCTextLines == [clean |-> <<"x">>, suspect |-> <<"x", "y">>, unsafe |-> <<"x", "z", "y">>]
MCStandings ==
    {[p \in MCPlaces |-> "nothing"]}
      \cup [MCPlaces -> {"suspect", "other"}]
MCPolicies == [autoApply : {FALSE}, scope : {<<"a">>}] \cup [autoApply : {TRUE}, scope : {<<>>, <<"a">>}]

(* The plugin's transports: addresses, and every kind of answer.           *)
MCUrls ==
    {[scheme |-> "http", host |-> "loopback", credentials |-> FALSE],
     [scheme |-> "https", host |-> "lookalike", credentials |-> FALSE],
     [scheme |-> "http", host |-> "lookalike", credentials |-> FALSE]}
MCAnswer == [ok |-> TRUE, status |-> 204, code |-> "none", major |-> "same", body |-> "none"]
MCResponses ==
    {[MCAnswer EXCEPT !.ok = FALSE], MCAnswer,
     [MCAnswer EXCEPT !.status = 200, !.body = "json"],
     [MCAnswer EXCEPT !.status = 200, !.body = "json", !.major = "other"],
     [MCAnswer EXCEPT !.status = 409, !.code = "unsupported_version"],
     [MCAnswer EXCEPT !.status = 401], [MCAnswer EXCEPT !.status = 409],
     [MCAnswer EXCEPT !.status = 409, !.code = "replay_detected"],
     [MCAnswer EXCEPT !.status = 429], [MCAnswer EXCEPT !.status = 503]}

StudioInit ==
    /\ part \in {"daemon", "review", "studio link", "place"}
    /\ Init
    /\ ReviewInit
    /\ LinkInit
    /\ PlaceInit /\ (part # "place" => before = CHOOSE p \in InitialPlaces : TRUE)

(* Only the part a behaviour is about moves. *)
Frame(p, vs) == IF part = p THEN TRUE ELSE UNCHANGED vs

StudioNext ==
    /\ \/ part = "daemon" /\ Next
       \/ part = "review" /\ ReviewNext
       \/ part = "studio link" /\ LinkNext
       \/ part = "place" /\ PlaceNext
    /\ Frame("daemon", vars)
    /\ Frame("review", reviewVars)
    /\ Frame("studio link", studioLinkVars)
    /\ Frame("place", placeVars)
    /\ UNCHANGED part

studioVars ==
    <<part, vars, reviewVars, studioLinkVars, placeVars>>

StudioSpec == StudioInit /\ [][StudioNext]_studioVars
=============================================================================
