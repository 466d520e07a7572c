----------------------------- MODULE MCServices -----------------------------
(***************************************************************************)
(* The services a user waits for, on small instances in one run: push to   *)
(* talk (its session, its page, its contacts and its configuration), the   *)
(* installer's service and the Plugins page.  As in MCTraffic a behaviour  *)
(* is one of the component `which`, while the others stay where they       *)
(* start; only of that one any step is fair.                               *)
(***************************************************************************)
EXTENDS PttSession, PttPage, PttPeers, PttConfig, InstallerService, PluginPage

VARIABLE which

-----------------------------------------------------------------------------

\* A component that is not the one that runs starts in one of its states only.
PageRests == mode = "alsa"
ConfigRests == file = Absent
ServiceRests == row = Nothing
PluginPageRests == server = {}

ServicesInit ==
    /\ which \in {"session", "page", "peers", "config", "service", "plugins", "uploads"}
    /\ (which = "page" \/ PageRests) /\ PageInit
    /\ (which = "config" \/ ConfigRests) /\ ConfigInit
    /\ (which = "service" \/ ServiceRests) /\ ServiceInit
    /\ (which \in {"plugins", "uploads"} \/ PluginPageRests) /\ PluginPageInit
    /\ Init /\ PeersInit

\* The Plugins page is there twice: with loads that overtake each other and fail,
\* and with uploads beside each other.
AtATime(requests) == Cardinality({r \in DOMAIN requests : requests[r].pc # "none"})

ServicesNext ==
    /\ UNCHANGED which
    /\ \/ /\ which = "session" /\ Next
          /\ UNCHANGED <<pageVars, peerVars, configVars, serviceVars, pluginPageVars>>
       \/ /\ which = "page" /\ PageNext
          /\ UNCHANGED <<vars, peerVars, configVars, serviceVars, pluginPageVars>>
       \/ /\ which = "peers" /\ PeersNext
          /\ UNCHANGED <<vars, pageVars, configVars, serviceVars, pluginPageVars>>
       \/ /\ which = "config" /\ ConfigNext
          /\ UNCHANGED <<vars, pageVars, peerVars, serviceVars, pluginPageVars>>
       \/ /\ which = "service" /\ ServiceNext
          /\ UNCHANGED <<vars, pageVars, peerVars, configVars, pluginPageVars>>
       \/ /\ which = "plugins" /\ PluginPageNext /\ AtATime(upload') <= 1
          /\ UNCHANGED <<vars, pageVars, peerVars, configVars, serviceVars>>
       \/ /\ which = "uploads" /\ PluginPageNext /\ AtATime(load') <= 1 /\ lost' = 0
          /\ UNCHANGED <<vars, pageVars, peerVars, configVars, serviceVars>>

servicesVars == <<which, vars, pageVars, peerVars, configVars, serviceVars, pluginPageVars>>

-----------------------------------------------------------------------------
(* Fairness.  The fair steps of the session and of the talk page are not   *)
(* enabled where these rest; those of the others are asked for only of the *)
(* component that runs.                                                    *)

\* Handlers and the event task go on; the peer, which announces itself every
\* ten seconds, is heard again and again.
PeersFairness ==
    /\ \A h \in Handlers : WF_peerVars(which = "peers" /\ EnsureStep(h))
    /\ WF_peerVars(which = "peers" /\ OutLinkEvent)
    /\ WF_peerVars(which = "peers" /\ RegisterAnnouncedPeer)

\* run_systemd_refresh_loop ticks, and the blocking threads run.
ServiceFairness ==
    /\ \A r \in Requests : WF_serviceVars(which = "service" /\ Step(r))
    /\ \A x \in Readers : /\ WF_serviceVars(which = "service" /\ Read(x))
                          /\ WF_serviceVars(which = "service" /\ Store(x))

\* The page's timer ticks, and every request is answered in the end.
PluginPageFairness ==
    /\ WF_pluginPageVars(which \in {"plugins", "uploads"} /\ Tick)
    /\ \A l \in Loads : /\ WF_pluginPageVars(which \in {"plugins", "uploads"} /\ ListServed(l))
                        /\ WF_pluginPageVars(which \in {"plugins", "uploads"} /\ ListAnswered(l))

ServicesSpec ==
    /\ ServicesInit /\ [][ServicesNext]_servicesVars
    /\ Fairness /\ PageFairness /\ PeersFairness /\ ServiceFairness /\ PluginPageFairness

-----------------------------------------------------------------------------
(* Properties: those of each component, as named in its module.            *)

\* The type invariant of the component that runs.
TypesOK ==
    CASE which = "session" -> TypeOK
      [] which = "page" -> PageTypeOK
      [] which = "peers" -> PeersTypeOK
      [] which = "config" -> ConfigTypeOK
      [] which = "service" -> ServiceTypeOK
      [] which \in {"plugins", "uploads"} -> PluginPageTypeOK

\* Push to talk goes on: a stop is answered, a speaker that is wanted is connected
\* again, and a contact that closed is tried again.
PttGoesOn == StopReturns /\ SpeakerReturns /\ ClosedIsRetried

\* The lists catch up: the installer's with systemd, the page's with the installer.
ListsCatchUp == ListSettles /\ ListCatchesUp
=============================================================================
