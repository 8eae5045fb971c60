------------------------------- MODULE MCStores -------------------------------
(* The components whose promises are about what survives: the usenet client, *)
(* the VPN profiles of the native clients, the library, the configuration    *)
(* restore, the guided setup, the set of plugins and the record of a managed *)
(* title.  They share no state, so a behaviour has one of them at work.      *)
EXTENDS UsenetClient, DownloadVpn, LibraryImport, ConfigRestore, Onboarding, PluginSet,
        ManagedTitles

CONSTANTS R1, R2, C1, C2, T1, T2, Usenet, File1, Query1, A, B,
          FirstName, OtherName, Monitored, Unmonitored, Daily

VARIABLE part

Named2    == [v \in {1, 2} |-> v]
\* Three plugins, MCP the last of the file, so that what it needs and what needs
\* it may come before it; two capabilities, one of them without a rival.
SmallManifests ==
    /\ manifest[1].provides \in {{}, {A}} /\ manifest[2].provides = {B}
    /\ manifest[Mcp].provides \in {{}, {A}}
    /\ Cardinality({need \in Plugins \X {A, B} : need[2] \in manifest[need[1]].requires}) <= 2
OneManifest ==
    /\ filed = Plugins
    /\ \A p \in Plugins : manifest[p] = [provides |-> {}, requires |-> {}]

FreshTitle ==
    /\ title.name = FirstName /\ title.mode = Monitored
    /\ title.episodes = IF kind = "movie" THEN {1} ELSE Episodes

storesVars == <<part, usenetVars, vpnVars, libraryVars, restoreVars, setupVars, setVars,
                titleVars>>

StoresInit ==
    /\ part \in {"usenet", "vpn", "library", "restore", "setup", "plugins", "titles"}
    /\ UsenetInit /\ VpnInit /\ LibraryInit /\ RestoreInit /\ SetupInit
    /\ part # "vpn" => profiles = 0
    /\ part # "setup" => setup = NewSetup
    /\ PluginSetInit /\ IF part = "plugins" THEN SmallManifests ELSE OneManifest
    /\ TitleInit /\ FreshTitle
    /\ part # "titles" => kind = "movie" /\ ~title.manual

StoresNext ==
    /\ UNCHANGED part
    /\ \/ part = "usenet" /\ UsenetNext
            /\ UNCHANGED <<vpnVars, libraryVars, restoreVars, setupVars, setVars, titleVars>>
       \/ part = "vpn" /\ VpnNext
            /\ UNCHANGED <<usenetVars, libraryVars, restoreVars, setupVars, setVars, titleVars>>
       \/ part = "library" /\ LibraryNext
            /\ UNCHANGED <<usenetVars, vpnVars, restoreVars, setupVars, setVars, titleVars>>
       \/ part = "restore" /\ RestoreNext
            /\ UNCHANGED <<usenetVars, vpnVars, libraryVars, setupVars, setVars, titleVars>>
       \/ part = "setup" /\ SetupNext
            /\ UNCHANGED <<usenetVars, vpnVars, libraryVars, restoreVars, setVars, titleVars>>
       \/ part = "plugins" /\ PluginSetNext
            /\ UNCHANGED <<usenetVars, vpnVars, libraryVars, restoreVars, setupVars, titleVars>>
       \/ part = "titles" /\ TitleNext
            /\ UNCHANGED <<usenetVars, vpnVars, libraryVars, restoreVars, setupVars, setVars>>

StoresSpec == StoresInit /\ [][StoresNext]_storesVars

\* The variables of the component at work have their types; the others are as
\* they start.
StoresTypeOK ==
    /\ part = "usenet"  => UsenetTypeOK
    /\ part = "vpn"     => VpnTypeOK
    /\ part = "library" => LibraryTypeOK
    /\ part = "restore" => RestoreTypeOK
    /\ part = "setup"   => SetupTypeOK
    /\ part = "plugins" => PluginSetTypeOK
    /\ part = "titles"  => TitleTypeOK
=============================================================================
