------------------------------- MODULE MCTools -------------------------------
(* The parts that run on their own: command-line tools, classes that one     *)
(* caller drives, and the account endpoints.  Each behaviour is one of a     *)
(* single part; `part` says which.                                           *)
EXTENDS DiagnosticScan, PassThru, EcuTools, CalibrationCatalog, PluginRegistry, Sniffer,
        VinDecoder, Accounts, TLC

\* Two bytes of which the second may be missing.
Payloads == {<<0>>, <<0, 1>>, <<1>>}

\* A burst, an ordinary gap, and the clock stepping back.
Gaps == {6, 30, -4}

\* 0x1234, the seed of the stub; the key's constant and its complement; the
\* top bit alone.
Seeds == {{2, 4, 5, 9, 12}, Mask, Bits \ Mask, {15}}

\* A check digit X; one before a year code 4; a digit for eighth character.
CarVins == {
  <<"Y", "S", "3", "F", "D", "4", "5", "Y", "X", "4", "0", "2", "3", "4", "5", "6", "7">>,
  <<"Y", "S", "3", "F", "D", "4", "5", "Y", "X", "8", "1", "2", "3", "4", "5", "6", "7">>,
  <<"1", "G", "1", "J", "C", "5", "2", "4", "6", "X", "7", "2", "5", "8", "9", "0", "1">>}

VARIABLE part

Parts == {"scan", "j2534", "ecu", "catalog", "plugins", "sniffer", "vin", "accounts"}

ToolsInit ==
  /\ part \in Parts
  /\ ScanInit /\ PassThruInit /\ EcuInit /\ CatalogInit /\ RegistryInit /\ SnifferInit
  /\ VinInit /\ AccountsInit
  \* the inputs of the two parts that have some from the start
  /\ part # "vin" => meant = CHOOSE v \in Vins : TRUE
  /\ part # "accounts" => \A r \in Registration : form[r] = CHOOSE f \in Forms : TRUE

ScanPart     == ScanNext /\ UNCHANGED <<passThruVars, ecuVars, catalogVars, registryVars,
                                        snifferVars, vinVars, accountVars>>
PassThruPart == PassThruNext /\ UNCHANGED <<scanVars, ecuVars, catalogVars, registryVars,
                                            snifferVars, vinVars, accountVars>>
EcuPart      == EcuNext /\ UNCHANGED <<scanVars, passThruVars, catalogVars, registryVars,
                                       snifferVars, vinVars, accountVars>>
CatalogPart  == CatalogNext /\ UNCHANGED <<scanVars, passThruVars, ecuVars, registryVars,
                                           snifferVars, vinVars, accountVars>>
RegistryPart == RegistryNext /\ UNCHANGED <<scanVars, passThruVars, ecuVars, catalogVars,
                                            snifferVars, vinVars, accountVars>>
SnifferPart  == SnifferNext /\ UNCHANGED <<scanVars, passThruVars, ecuVars, catalogVars,
                                           registryVars, vinVars, accountVars>>
VinPart      == VinNext /\ UNCHANGED <<scanVars, passThruVars, ecuVars, catalogVars,
                                       registryVars, snifferVars, accountVars>>
AccountsPart == AccountsNext /\ UNCHANGED <<scanVars, passThruVars, ecuVars, catalogVars,
                                            registryVars, snifferVars, vinVars>>

ToolsNext ==
  /\ UNCHANGED part
  /\ \/ part = "scan" /\ ScanPart
     \/ part = "j2534" /\ PassThruPart
     \/ part = "ecu" /\ EcuPart
     \/ part = "catalog" /\ CatalogPart
     \/ part = "plugins" /\ RegistryPart
     \/ part = "sniffer" /\ SnifferPart
     \/ part = "vin" /\ VinPart
     \/ part = "accounts" /\ AccountsPart

toolsVars == <<part, scanVars, passThruVars, ecuVars, catalogVars, registryVars, snifferVars,
               vinVars, accountVars>>

ToolsSpec == ToolsInit /\ [][ToolsNext]_toolsVars /\ CatalogFairness

(* Every variable of every part stays in its type. *)
ToolsTypeOK ==
  /\ ScanTypeOK /\ PassThruTypeOK /\ EcuTypeOK /\ CatalogTypeOK /\ RegistryTypeOK
  /\ SnifferTypeOK /\ VinTypeOK /\ AccountsTypeOK
==============================================================================
