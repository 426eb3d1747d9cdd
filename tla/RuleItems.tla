----------------------------- MODULE RuleItems -----------------------------
(***************************************************************************)
(* The conditions of routing, DNS and headless rules (route/rule: one Go     *)
(* type RuleItem per condition).  An item is its type and the set of values  *)
(* it accepts; a matcher of names, prefixes or patterns is the set of names  *)
(* or addresses it matches.  A condition is evaluated on metadata, the       *)
(* InboundContext of a connection or query, of which DNS and routing use     *)
(* different parts, and on the state of the network the manager reports.    *)
(***************************************************************************)
EXTENDS Integers, FiniteSets

CONSTANTS
    NetworkManager,  \* what the network manager and the Clash server report
    Private,         \* the addresses that are not public
    None             \* no name, no address, no process

Addr(socksaddr) == socksaddr.Addr

IsIP(socksaddr) == socksaddr.Addr # None

(* The name domain conditions look at: the sniffed or mapped one first.     *)
DomainHost(metadata) ==
    IF metadata.Domain # None THEN metadata.Domain ELSE metadata.Destination.Fqdn

DomainItem(item, metadata) ==
    DomainHost(metadata) # None /\ DomainHost(metadata) \in item.values

DomainKeywordItem(item, metadata) ==
    DomainHost(metadata) # None /\ DomainHost(metadata) \in item.values

DomainRegexItem(item, metadata) ==
    DomainHost(metadata) # None /\ DomainHost(metadata) \in item.values

AdGuardDomainItem(item, metadata) ==
    DomainHost(metadata) # None /\ DomainHost(metadata) \in item.values

(* The source address if the item or the rule-set asks for it, else the      *)
(* destination, else any of the addresses it was resolved to.               *)
IPCIDRItem(item, metadata) ==
    IF item.type = "source_ip_cidr" \/ metadata.IPCIDRMatchSource
    THEN Addr(metadata.Source) \in item.values
    ELSE IF IsIP(metadata.Destination)
    THEN Addr(metadata.Destination) \in item.values
    ELSE IF metadata.DestinationAddresses # {}
    THEN metadata.DestinationAddresses \intersect item.values # {}
    ELSE metadata.IPCIDRAcceptEmpty

IPIsPrivateItem(item, metadata) ==
    IF item.type = "source_ip_is_private"
    THEN Addr(metadata.Source) \in Private
    ELSE IF IsIP(metadata.Destination)
    THEN Addr(metadata.Destination) \in Private
    ELSE metadata.DestinationAddresses \intersect Private # {}

IPAcceptAnyItem(item, metadata) == metadata.DestinationAddresses # {}

IPVersionItem(item, metadata) ==
    \/ metadata.IPVersion # 0 /\ metadata.IPVersion \in item.values
    \/ IsIP(metadata.Destination) /\ metadata.Destination.Version \in item.values

PortItem(item, metadata) ==
    IF item.type = "source_port" THEN metadata.Source.Port \in item.values
    ELSE metadata.Destination.Port \in item.values

(* The values of a range item are pairs, both ends included.                *)
PortRangeItem(item, metadata) ==
    LET port == IF item.type = "source_port_range" THEN metadata.Source.Port
                ELSE metadata.Destination.Port IN
    \E range \in item.values : port >= range[1] /\ port <= range[2]

InboundItem(item, metadata) == metadata.Inbound \in item.values

NetworkItem(item, metadata) == metadata.Network \in item.values

AuthUserItem(item, metadata) == metadata.User \in item.values

ProtocolItem(item, metadata) == metadata.Protocol \in item.values

ClientItem(item, metadata) == metadata.Client \in item.values

QueryTypeItem(item, metadata) ==
    metadata.QueryType # None /\ metadata.QueryType \in item.values

(* "any" stands for every outbound.                                         *)
OutboundItem(item, metadata) ==
    IF "any" \in item.values THEN metadata.Outbound # None
    ELSE metadata.Outbound \in item.values

-----------------------------------------------------------------------------
(* The process a connection belongs to, each part of it known or None.      *)
Known(metadata, part) ==
    metadata.ProcessInfo # None /\ metadata.ProcessInfo[part] # None

ProcessItem(item, metadata) ==
    Known(metadata, "ProcessPath") /\ metadata.ProcessInfo.ProcessPath.base \in item.values

ProcessPathItem(item, metadata) ==
    Known(metadata, "ProcessPath") /\ metadata.ProcessInfo.ProcessPath.path \in item.values

ProcessPathRegexItem(item, metadata) ==
    Known(metadata, "ProcessPath") /\ metadata.ProcessInfo.ProcessPath.path \in item.values

PackageNameItem(item, metadata) ==
    Known(metadata, "PackageName") /\ metadata.ProcessInfo.PackageName \in item.values

UserItem(item, metadata) ==
    Known(metadata, "UserName") /\ metadata.ProcessInfo.UserName \in item.values

UserIdItem(item, metadata) ==
    Known(metadata, "UserId") /\ metadata.ProcessInfo.UserId \in item.values

-----------------------------------------------------------------------------
(* The conditions on the network rather than on the connection.             *)
ClashModeItem(item, metadata) ==
    NetworkManager.ClashMode # None /\ NetworkManager.ClashMode \in item.values

DefaultNetworkInterface == NetworkManager.DefaultNetworkInterface

NetworkTypeItem(item, metadata) ==
    DefaultNetworkInterface # None /\ DefaultNetworkInterface.Type \in item.values

NetworkIsExpensiveItem(item, metadata) ==
    DefaultNetworkInterface # None /\ DefaultNetworkInterface.Expensive

NetworkIsConstrainedItem(item, metadata) ==
    DefaultNetworkInterface # None /\ DefaultNetworkInterface.Constrained

WIFISSIDItem(item, metadata) == NetworkManager.WIFIState.SSID \in item.values

WIFIBSSIDItem(item, metadata) == NetworkManager.WIFIState.BSSID \in item.values

(* The values are prefixes, and every one must overlap the interface.       *)
DefaultInterfaceAddressItem(item, metadata) ==
    /\ NetworkManager.DefaultInterface # None
    /\ \A address \in item.values :
          \E it \in NetworkManager.DefaultInterface.Addresses : address \intersect it # {}

(* The values are pairs: for each interface or interface type, the prefixes  *)
(* one of which it must have an address in.  An interface has one name.       *)
Overlaps(addresses, prefixes) ==
    \E it \in addresses, prefix \in prefixes : it \intersect prefix # {}

InterfaceAddressItem(item, metadata) ==
    \A pair \in item.values :
        \E iface \in NetworkManager.Interfaces :
            iface.Name = pair[1] /\ Overlaps(iface.Addresses, pair[2])

NetworkInterfaceAddressItem(item, metadata) ==
    \A pair \in item.values :
        \E iface \in NetworkManager.NetworkInterfaces :
            iface.Type = pair[1] /\ Overlaps(iface.Addresses, pair[2])

(* The values are the names and addresses the outbounds prefer.             *)
PreferredByItem(item, metadata) ==
    \/ DomainHost(metadata) # None /\ DomainHost(metadata) \in item.values
    \/ IsIP(metadata.Destination) /\ Addr(metadata.Destination) \in item.values
    \/ metadata.DestinationAddresses \intersect item.values # {}

-----------------------------------------------------------------------------
(* Which list of a rule an option of each type is appended to; the others    *)
(* go to the list items, in which every condition must hold.                *)
SourceAddressTypes == {"source_ip_cidr", "source_ip_is_private"}
SourcePortTypes == {"source_port", "source_port_range"}
DestinationAddressTypes == {"domain", "domain_keyword", "domain_regex", "adguard_domain"}
DestinationIPCIDRTypes == {"ip_cidr", "ip_is_private", "ip_accept_any"}
DestinationPortTypes == {"port", "port_range"}

GroupTypes ==
    SourceAddressTypes \union SourcePortTypes \union DestinationAddressTypes
        \union DestinationIPCIDRTypes \union DestinationPortTypes

ItemMatch(item, metadata) ==
    CASE item.type = "domain" -> DomainItem(item, metadata)
      [] item.type = "domain_keyword" -> DomainKeywordItem(item, metadata)
      [] item.type = "domain_regex" -> DomainRegexItem(item, metadata)
      [] item.type = "adguard_domain" -> AdGuardDomainItem(item, metadata)
      [] item.type \in {"ip_cidr", "source_ip_cidr"} -> IPCIDRItem(item, metadata)
      [] item.type \in {"ip_is_private", "source_ip_is_private"} -> IPIsPrivateItem(item, metadata)
      [] item.type = "ip_accept_any" -> IPAcceptAnyItem(item, metadata)
      [] item.type = "ip_version" -> IPVersionItem(item, metadata)
      [] item.type \in {"port", "source_port"} -> PortItem(item, metadata)
      [] item.type \in {"port_range", "source_port_range"} -> PortRangeItem(item, metadata)
      [] item.type = "inbound" -> InboundItem(item, metadata)
      [] item.type = "network" -> NetworkItem(item, metadata)
      [] item.type = "auth_user" -> AuthUserItem(item, metadata)
      [] item.type = "protocol" -> ProtocolItem(item, metadata)
      [] item.type = "client" -> ClientItem(item, metadata)
      [] item.type = "query_type" -> QueryTypeItem(item, metadata)
      [] item.type = "outbound" -> OutboundItem(item, metadata)
      [] item.type = "process_name" -> ProcessItem(item, metadata)
      [] item.type = "process_path" -> ProcessPathItem(item, metadata)
      [] item.type = "process_path_regex" -> ProcessPathRegexItem(item, metadata)
      [] item.type = "package_name" -> PackageNameItem(item, metadata)
      [] item.type = "user" -> UserItem(item, metadata)
      [] item.type = "user_id" -> UserIdItem(item, metadata)
      [] item.type = "clash_mode" -> ClashModeItem(item, metadata)
      [] item.type = "network_type" -> NetworkTypeItem(item, metadata)
      [] item.type = "network_is_expensive" -> NetworkIsExpensiveItem(item, metadata)
      [] item.type = "network_is_constrained" -> NetworkIsConstrainedItem(item, metadata)
      [] item.type = "wifi_ssid" -> WIFISSIDItem(item, metadata)
      [] item.type = "wifi_bssid" -> WIFIBSSIDItem(item, metadata)
      [] item.type = "default_interface_address" -> DefaultInterfaceAddressItem(item, metadata)
      [] item.type = "interface_address" -> InterfaceAddressItem(item, metadata)
      [] item.type = "network_interface_address" -> NetworkInterfaceAddressItem(item, metadata)
      [] item.type = "preferred_by" -> PreferredByItem(item, metadata)
=============================================================================
