------------------------------ MODULE MCDevice ------------------------------
(***************************************************************************)
(* What is kept on the device and how its pages show it, on small          *)
(* instances in one run: the gateway's settings, its volume controls, the  *)
(* VPN page, the upgrade of the installer's binary, plugin packages and    *)
(* the plugin store.  As in MCTraffic a behaviour is one of the component  *)
(* `which`, while the others stay where they start.                        *)
(***************************************************************************)
EXTENDS GatewaySettings, AudioControl, VpnPage, InstallerUpgrade, PluginPackage,
        PluginStore

CONSTANTS v1, v2, la

VARIABLE which

\* The mixer knows the lowest and the highest volume, and rounds to the nearer.
MCDevice == [v \in Volumes |-> IF v + v < MaxVolume THEN 0 ELSE MaxVolume]

\* One version wants a symlink, the other none.
MCLinkOf == v1 :> la @@ v2 :> NoVersion

Symmetry == Permutations(Clients) \cup Permutations(Plugins) \cup Permutations(Pages)

-----------------------------------------------------------------------------

\* A component that is not the one that runs starts in one of its states only.
ControlRests == volume = Device[0] /\ switch = "none"
VpnPageRests == dialog = {} /\ server = {}
PackageRests == upload = [manifest |-> GoodManifest, entries |-> TRUE, sha |-> "match",
                          sig |-> "none", files |-> <<>>, unit |-> <<"[Service]">>,
                          wrap |-> "bare"]
StoreRests == live = [p \in Plugins |-> NoVersion] /\ core = "absent"

DeviceInit ==
    /\ which \in {"settings", "control", "page", "upgrade", "package", "store"}
    /\ (which = "control" \/ ControlRests) /\ ControlInit
    /\ (which = "page" \/ VpnPageRests) /\ VpnPageInit
    /\ (which = "package" \/ PackageRests) /\ PackageInit
    /\ (which = "store" \/ StoreRests) /\ StoreInit
    /\ SettingsInit /\ UpgradeInit

DeviceNext ==
    /\ UNCHANGED which
    /\ \/ /\ which = "settings" /\ SettingsNext
          /\ UNCHANGED <<audioCtlVars, vpnPageVars, upgradeVars, packageVars,
                         storeVars>>
       \/ /\ which = "control" /\ ControlNext
          /\ UNCHANGED <<settingsVars, vpnPageVars, upgradeVars, packageVars,
                         storeVars>>
       \/ /\ which = "page" /\ VpnPageNext
          /\ UNCHANGED <<settingsVars, audioCtlVars, upgradeVars, packageVars,
                         storeVars>>
       \/ /\ which = "upgrade" /\ UpgradeNext
          /\ UNCHANGED <<settingsVars, audioCtlVars, vpnPageVars, packageVars,
                         storeVars>>
       \/ /\ which = "package" /\ PackageNext
          /\ UNCHANGED <<settingsVars, audioCtlVars, vpnPageVars, upgradeVars,
                         storeVars>>
       \/ /\ which = "store" /\ StoreNext
          /\ UNCHANGED <<settingsVars, audioCtlVars, vpnPageVars, upgradeVars,
                         packageVars>>

DeviceSpec ==
    DeviceInit /\ [][DeviceNext]_<<which, settingsVars, audioCtlVars, vpnPageVars,
                                   upgradeVars, packageVars, storeVars>>

-----------------------------------------------------------------------------
(* Properties: one for each component, as named in its module.             *)

\* The type invariant of the component that runs.
TypesOK ==
    CASE which = "settings" -> SettingsTypeOK
      [] which = "control" -> ControlTypeOK
      [] which = "page" -> VpnPageTypeOK
      [] which = "upgrade" -> UpgradeTypeOK
      [] which = "package" -> PackageTypeOK
      [] which = "store" -> StoreTypeOK
=============================================================================
