---------------------------- MODULE MCDaemonState ---------------------------
(* What is kept besides the ChangeSets, each part explored by itself: the  *)
(* events of runs, the pairing code, the two stores, the database behind   *)
(* one of them, the journals, the credentials and the model catalogue.     *)
EXTENDS RunEvents, Pairing, Stores, Storage, RelayJournal, Credentials,
        Catalogue

VARIABLE part   \* which of them a behaviour is about

(* The catalogue: models that are free, free without tools, priced, free   *)
(* by the token only, priced unreadably, and free without a context.       *)
MCRaw == [prompt |-> "zero", completion |-> "zero", charge |-> "absent", out |-> {"text"},
          capabilities |-> {"tools"}, context |-> 1]
MCRaws == {MCRaw, [MCRaw EXCEPT !.capabilities = {}], [MCRaw EXCEPT !.prompt = "paid"],
           [MCRaw EXCEPT !.charge = "paid", !.out = {"audio"}],
           [MCRaw EXCEPT !.completion = "blank"], [MCRaw EXCEPT !.charge = "unreadable"],
           [MCRaw EXCEPT !.prompt = "absent", !.context = 2, !.capabilities = {"tools", "reasoning"}],
           [MCRaw EXCEPT !.context = 0]}
MCListings ==
    {<<[id |-> 1, raw |-> MCRaw], [id |-> 2, raw |-> MCRaw],
       [id |-> 3, raw |-> [MCRaw EXCEPT !.charge = "paid", !.out = {"audio"}]]>>}
\* An endpoint that does not page is only ever asked from the start.
MCEndpoints ==
    {e \in [pages : BOOLEAN, total : BOOLEAN, offset : BOOLEAN] :
       e.offset \/ (e.pages /\ e.total)}

StateInit ==
    /\ part \in {"events", "pairing", "stores", "storage", "journals",
                 "credentials", "catalogue"}
    /\ RunEventsInit
    /\ PairingInit
    /\ StoresInit /\ (part # "stores" => family = "links")
    /\ StorageInit /\ (part # "storage" => exercised = "rows")
    /\ RelayJournalInit /\ (part # "journals" => host = "relay" /\ proposals["gate"] # "approved" /\ proposals["code"] = "approved")
    /\ CredentialsInit /\ (part # "credentials" => area = "web")
    /\ CatalogueInit

(* Only the part a behaviour is about moves. *)
Frame(p, vs) == IF part = p THEN TRUE ELSE UNCHANGED vs

StateNext ==
    /\ \/ part = "events" /\ RunEventsNext
       \/ part = "pairing" /\ PairingNext
       \/ part = "stores" /\ StoresNext
       \/ part = "storage" /\ StorageNext
       \/ part = "journals" /\ RelayJournalNext
       \/ part = "credentials" /\ CredentialsNext
       \/ part = "catalogue" /\ CatalogueNext
    /\ Frame("events", runEventsVars)
    /\ Frame("pairing", pairingVars)
    /\ Frame("stores", storesVars)
    /\ Frame("storage", storageVars)
    /\ Frame("journals", relayJournalVars)
    /\ Frame("credentials", credentialVars)
    /\ Frame("catalogue", catalogueVars)
    /\ UNCHANGED part

stateVars ==
    <<part, runEventsVars, pairingVars, storesVars, storageVars,
      relayJournalVars, credentialVars, catalogueVars>>

StateSpec == StateInit /\ [][StateNext]_stateVars
             /\ \A r \in Runs : WF_runEventsVars(part = "events" /\ RunSettles(r))
=============================================================================
