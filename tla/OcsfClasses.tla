---------------------------- MODULE OcsfClasses ----------------------------
(***************************************************************************)
(* The OCSF event classes of common/ocsf: what NewX(activityID) of each    *)
(* generated class sets (its category and class, by number and by name,    *)
(* and the type_uid computed from them), the activity constants declared   *)
(* beside it, and the tables of human readable names.                      *)
(*                                                                         *)
(* The class-specific attributes of a generated struct are not modelled:   *)
(* every normalizer returns only the embedded ocsf.Event.  Validate() of   *)
(* the generated structs has no caller and is left out too.                *)
(***************************************************************************)
EXTENDS Integers, TLC

EventClass(category_uid, class_uid, category, class, activities) ==
  [category_uid |-> category_uid, class_uid |-> class_uid,
   category |-> category, class |-> class, activities |-> activities]

\* System activity (common/ocsf/events/system).
FileActivity == EventClass(1, 1001, "system", "file_activity", 1 .. 14)
KernelExtensionActivity ==
  EventClass(1, 1002, "system", "kernel_extension_activity", {1, 2})
KernelActivity == EventClass(1, 1003, "system", "kernel_activity", 1 .. 4)
MemoryActivity == EventClass(1, 1004, "system", "memory_activity", 1 .. 9)
ModuleActivity == EventClass(1, 1005, "system", "module_activity", 1 .. 3)
ScheduledJobActivity ==
  EventClass(1, 1006, "system", "scheduled_job_activity", 1 .. 6)
ProcessActivity == EventClass(1, 1007, "system", "process_activity", 1 .. 5)
EventLogActvity == EventClass(1, 1008, "system", "event_log_actvity", 1 .. 10)
ScriptActivity == EventClass(1, 1009, "system", "script_activity", {1})
PeripheralActivity ==
  EventClass(1, 1010, "system", "peripheral_activity", 1 .. 5)

\* Findings (common/ocsf/events/findings).
Finding == EventClass(2, 2000, "findings", "finding", 1 .. 3)
SecurityFinding == EventClass(2, 2001, "findings", "security_finding", 1 .. 3)
VulnerabilityFinding ==
  EventClass(2, 2002, "findings", "vulnerability_finding", {})
ComplianceFinding == EventClass(2, 2003, "findings", "compliance_finding", {})
DetectionFinding == EventClass(2, 2004, "findings", "detection_finding", {})
IncidentFinding == EventClass(2, 2005, "findings", "incident_finding", 1 .. 3)
DataSecurityFinding ==
  EventClass(2, 2006, "findings", "data_security_finding", 1 .. 4)
ApplicationSecurityPostureFinding ==
  EventClass(2, 2007, "findings", "application_security_posture_finding", {})
IamAnalysisFinding ==
  EventClass(2, 2008, "findings", "iam_analysis_finding", {})

\* Identity and access management (common/ocsf/events/iam).
AccountChange == EventClass(3, 3001, "iam", "account_change", 1 .. 12)
Authentication == EventClass(3, 3002, "iam", "authentication", 1 .. 7)
AuthorizeSession == EventClass(3, 3003, "iam", "authorize_session", {1, 2})
EntityManagement == EventClass(3, 3004, "iam", "entity_management", 1 .. 13)
UserAccess == EventClass(3, 3005, "iam", "user_access", {1, 2})
GroupManagement == EventClass(3, 3006, "iam", "group_management", 1 .. 8)

\* Network activity (common/ocsf/events/network).
NetworkActivity == EventClass(4, 4001, "network", "network_activity", 1 .. 7)
HttpActivity == EventClass(4, 4002, "network", "http_activity", 1 .. 9)
DnsActivity == EventClass(4, 4003, "network", "dns_activity", {1, 2, 6})
DhcpActivity == EventClass(4, 4004, "network", "dhcp_activity", 1 .. 9)
RdpActivity == EventClass(4, 4005, "network", "rdp_activity", 1 .. 8)
SmbActivity == EventClass(4, 4006, "network", "smb_activity", 1 .. 6)
SshActivity == EventClass(4, 4007, "network", "ssh_activity", 1 .. 7)
FtpActivity == EventClass(4, 4008, "network", "ftp_activity", 1 .. 6)
EmailActivity == EventClass(4, 4009, "network", "email_activity", 1 .. 5)
NetworkFileActivity ==
  EventClass(4, 4010, "network", "network_file_activity", 1 .. 16)
EmailFileActivity ==
  EventClass(4, 4011, "network", "email_file_activity", 1 .. 3)
EmailUrlActivity ==
  EventClass(4, 4012, "network", "email_url_activity", 1 .. 3)
NtpActivity ==
  EventClass(4, 4013, "network", "ntp_activity", (0 .. 7) \cup {99})
TunnelActivity ==
  EventClass(4, 4014, "network", "tunnel_activity", (0 .. 3) \cup {99})

\* Discovery (common/ocsf/events/discovery).
DiscoveryResult == EventClass(5, 5000, "discovery", "discovery_result", {1})
InventoryInfo == EventClass(5, 5001, "discovery", "inventory_info", {})
ConfigState == EventClass(5, 5002, "discovery", "config_state", {})
UserInventory == EventClass(5, 5003, "discovery", "user_inventory", {})
PatchState == EventClass(5, 5004, "discovery", "patch_state", {})
KernelObjectQuery ==
  EventClass(5, 5006, "discovery", "kernel_object_query", {})
FileQuery == EventClass(5, 5007, "discovery", "file_query", {})
FolderQuery == EventClass(5, 5008, "discovery", "folder_query", {})
AdminGroupQuery == EventClass(5, 5009, "discovery", "admin_group_query", {})
JobQuery == EventClass(5, 5010, "discovery", "job_query", {})
ModuleQuery == EventClass(5, 5011, "discovery", "module_query", {})
NetworkConnectionQuery ==
  EventClass(5, 5012, "discovery", "network_connection_query", {})
NetworksQuery == EventClass(5, 5013, "discovery", "networks_query", {})
PeripheralDeviceQuery ==
  EventClass(5, 5014, "discovery", "peripheral_device_query", {})
ProcessQuery == EventClass(5, 5015, "discovery", "process_query", {})
ServiceQuery == EventClass(5, 5016, "discovery", "service_query", {})
SessionQuery == EventClass(5, 5017, "discovery", "session_query", {})
UserQuery == EventClass(5, 5018, "discovery", "user_query", {})
DeviceConfigStateChange ==
  EventClass(5, 5019, "discovery", "device_config_state_change", {})
SoftwareInfo == EventClass(5, 5020, "discovery", "software_info", {})
OsintInventoryInfo ==
  EventClass(5, 5021, "discovery", "osint_inventory_info", {})
StartupItemQuery == EventClass(5, 5022, "discovery", "startup_item_query", {})
CloudResourcesInventoryInfo ==
  EventClass(5, 5023, "discovery", "cloud_resources_inventory_info", {})
EvidenceInfo == EventClass(5, 5040, "discovery", "evidence_info", {})

\* Application activity (common/ocsf/events/application).
WebResourcesActivity ==
  EventClass(6, 6001, "application", "web_resources_activity", 1 .. 8)
ApplicationLifecycle ==
  EventClass(6, 6002, "application", "application_lifecycle", 1 .. 8)
ApiActivity == EventClass(6, 6003, "application", "api_activity", 1 .. 4)
WebResourceAccessActivity ==
  EventClass(6, 6004, "application", "web_resource_access_activity", 1 .. 4)
DatastoreActivity ==
  EventClass(6, 6005, "application", "datastore_activity", 1 .. 10)
FileHosting == EventClass(6, 6006, "application", "file_hosting", 1 .. 17)
ScanActivity == EventClass(6, 6007, "application", "scan_activity", 1 .. 10)
ApplicationError ==
  EventClass(6, 6008, "application", "application_error", {1, 2})

\* Remediation (common/ocsf/events/remediation).
RemediationActivity ==
  EventClass(7, 7001, "remediation", "remediation_activity", 1 .. 5)
FileRemediationActivity ==
  EventClass(7, 7002, "remediation", "file_remediation_activity", {})
ProcessRemediationActivity ==
  EventClass(7, 7003, "remediation", "process_remediation_activity", {})
NetworkRemediationActivity ==
  EventClass(7, 7004, "remediation", "network_remediation_activity", {})

\* Unmanned systems (common/ocsf/events/unmanned_systems).
DroneFlightsActivity ==
  EventClass(8, 8001, "unmanned_systems", "drone_flights_activity",
             (0 .. 2) \cup {99})
AirborneBroadcastActivity ==
  EventClass(8, 8002, "unmanned_systems", "airborne_broadcast_activity",
             (0 .. 2) \cup {99})

Classes ==
  {AccountChange, AdminGroupQuery, AirborneBroadcastActivity, ApiActivity,
   ApplicationError, ApplicationLifecycle, ApplicationSecurityPostureFinding,
   Authentication, AuthorizeSession, CloudResourcesInventoryInfo,
   ComplianceFinding, ConfigState, DataSecurityFinding, DatastoreActivity,
   DetectionFinding, DeviceConfigStateChange, DhcpActivity, DiscoveryResult,
   DnsActivity, DroneFlightsActivity, EmailActivity, EmailFileActivity,
   EmailUrlActivity, EntityManagement, EventLogActvity, EvidenceInfo,
   FileActivity, FileHosting, FileQuery, FileRemediationActivity, Finding,
   FolderQuery, FtpActivity, GroupManagement, HttpActivity,
   IamAnalysisFinding, IncidentFinding, InventoryInfo, JobQuery,
   KernelActivity, KernelExtensionActivity, KernelObjectQuery,
   MemoryActivity, ModuleActivity, ModuleQuery, NetworkActivity,
   NetworkConnectionQuery, NetworkFileActivity, NetworkRemediationActivity,
   NetworksQuery, NtpActivity, OsintInventoryInfo, PatchState,
   PeripheralActivity, PeripheralDeviceQuery, ProcessActivity, ProcessQuery,
   ProcessRemediationActivity, RdpActivity, RemediationActivity,
   ScanActivity, ScheduledJobActivity, ScriptActivity, SecurityFinding,
   ServiceQuery, SessionQuery, SmbActivity, SoftwareInfo, SshActivity,
   StartupItemQuery, TunnelActivity, UserAccess, UserInventory, UserQuery,
   VulnerabilityFinding, WebResourceAccessActivity, WebResourcesActivity}

\* The names of the categories, "Unknown" for any other number.
CategoryNames ==
  1 :> "System Activity" @@ 2 :> "Findings" @@
  3 :> "Identity & Access Management" @@ 4 :> "Network Activity" @@
  5 :> "Discovery" @@ 6 :> "Application Activity" @@ 7 :> "Remediation" @@
  8 :> "Unmanned Systems"

CategoryName(categoryUID) ==
  IF categoryUID \in DOMAIN CategoryNames THEN CategoryNames[categoryUID]
  ELSE "Unknown"

\* The names of the classes, split in the two halves of the table.
ClassNames1to4 ==
  1001 :> "File System Activity" @@ 1002 :> "Kernel Extension Activity" @@
  1003 :> "Kernel Activity" @@ 1004 :> "Memory Activity" @@
  1005 :> "Module Activity" @@ 1006 :> "Scheduled Job Activity" @@
  1007 :> "Process Activity" @@ 1008 :> "Event Log Activity" @@
  1009 :> "Script Activity" @@ 1010 :> "Peripheral Activity" @@
  2000 :> "Finding" @@ 2001 :> "Security Finding" @@
  2002 :> "Vulnerability Finding" @@ 2003 :> "Compliance Finding" @@
  2004 :> "Detection Finding" @@ 2005 :> "Incident Finding" @@
  2006 :> "Data Security Finding" @@
  2007 :> "Application Security Posture Finding" @@
  2008 :> "IAM Analysis Finding" @@ 3001 :> "Account Change" @@
  3002 :> "Authentication" @@ 3003 :> "Authorize Session" @@
  3004 :> "Entity Management" @@ 3005 :> "User Access Management" @@
  3006 :> "Group Management" @@ 4001 :> "Network Activity" @@
  4002 :> "HTTP Activity" @@ 4003 :> "DNS Activity" @@
  4004 :> "DHCP Activity" @@ 4005 :> "RDP Activity" @@
  4006 :> "SMB Activity" @@ 4007 :> "SSH Activity" @@
  4008 :> "FTP Activity" @@ 4009 :> "Email Activity" @@
  4010 :> "Network File Activity" @@ 4011 :> "Email File Activity" @@
  4012 :> "Email URL Activity" @@ 4013 :> "NTP Activity" @@
  4014 :> "Tunnel Activity"
ClassNames5to8 ==
  5000 :> "Discovery Result" @@ 5001 :> "Device Inventory Info" @@
  5002 :> "Device Config State" @@ 5003 :> "User Inventory Info" @@
  5004 :> "Operating System Patch State" @@ 5006 :> "Kernel Object Query" @@
  5007 :> "File Query" @@ 5008 :> "Folder Query" @@
  5009 :> "Admin Group Query" @@ 5010 :> "Job Query" @@
  5011 :> "Module Query" @@ 5012 :> "Network Connection Query" @@
  5013 :> "Networks Query" @@ 5014 :> "Peripheral Device Query" @@
  5015 :> "Process Query" @@ 5016 :> "Service Query" @@
  5017 :> "User Session Query" @@ 5018 :> "User Query" @@
  5019 :> "Device Config State Change" @@
  5020 :> "Software Inventory Info" @@ 5021 :> "OSINT Inventory Info" @@
  5022 :> "Startup Item Query" @@ 5023 :> "Cloud Resources Inventory Info" @@
  5040 :> "Live Evidence Info" @@ 6001 :> "Web Resources Activity" @@
  6002 :> "Application Lifecycle" @@ 6003 :> "API Activity" @@
  6004 :> "Web Resource Access Activity" @@ 6005 :> "Datastore Activity" @@
  6006 :> "File Hosting Activity" @@ 6007 :> "Scan Activity" @@
  6008 :> "Application Error" @@ 7001 :> "Remediation Activity" @@
  7002 :> "File Remediation Activity" @@
  7003 :> "Process Remediation Activity" @@
  7004 :> "Network Remediation Activity" @@
  8001 :> "Drone Flights Activity" @@ 8002 :> "Airborne Broadcast Activity"

\* A plausible mistake: the table is cut before the last class.
MissingClassNames == [uid \in (DOMAIN ClassNames1to4 \cup DOMAIN ClassNames5to8)
                                \ {8002} |-> (ClassNames1to4 @@ ClassNames5to8)[uid]]

ClassNames == ClassNames1to4 @@ ClassNames5to8

ClassName(classUID) ==
  IF classUID \in DOMAIN ClassNames THEN ClassNames[classUID] ELSE "Unknown"

\* The keys the activity table has a name for, by category.
Activities1 ==
  1001 :> (1 .. 14) @@ 1002 :> {1, 2} @@ 1003 :> (1 .. 4) @@
  1004 :> (1 .. 9) @@ 1005 :> (1 .. 3) @@ 1006 :> (1 .. 6) @@
  1008 :> (1 .. 10) @@ 1009 :> {1} @@ 1010 :> (1 .. 5)
Activities2 ==
  2000 :> (1 .. 3) @@ 2001 :> (1 .. 3) @@ 2005 :> (1 .. 3) @@
  2006 :> (1 .. 4)
Activities3 ==
  3001 :> (1 .. 12) @@ 3003 :> {1, 2} @@
  3004 :> (1 .. 13) @@ 3005 :> {1, 2} @@ 3006 :> (1 .. 8)
Activities4a ==
  4002 :> (1 .. 9) @@ 4003 :> {1, 2, 6} @@
  4004 :> (1 .. 9) @@ 4005 :> (1 .. 8) @@ 4006 :> (1 .. 6) @@
  4007 :> (1 .. 7)
Activities4b ==
  4008 :> (1 .. 6) @@ 4009 :> (1 .. 5) @@ 4010 :> (1 .. 16) @@
  4011 :> (1 .. 3) @@ 4012 :> (1 .. 3) @@ 4013 :> ((0 .. 7) \cup {99}) @@
  4014 :> ((0 .. 3) \cup {99})
Activities5 ==
  5000 :> {1}
Activities6 ==
  6001 :> (1 .. 8) @@ 6002 :> (1 .. 8) @@ 6003 :> (1 .. 4) @@
  6004 :> (1 .. 4) @@ 6005 :> (1 .. 10) @@ 6006 :> (1 .. 17) @@
  6007 :> (1 .. 10) @@ 6008 :> {1, 2}
Activities7 ==
  7001 :> (1 .. 5)
Activities8 ==
  8001 :> ((0 .. 2) \cup {99}) @@ 8002 :> ((0 .. 2) \cup {99})

NamedActivities ==
  LET named == Activities1 @@ Activities2 @@ Activities3 @@
               Activities4a @@ Activities4b @@ Activities5 @@
               Activities6 @@ Activities7 @@ Activities8
  IN  UNION {{class * 100 + id : id \in named[class]} : class \in DOMAIN named}

\* The names of the activities whose number a normalizer chooses.
ActivityNames ==
  1007 :> <<"Launch", "Terminate", "Open", "Inject", "Set User ID">> @@
  3002 :> <<"Logon", "Logoff", "Authentication Ticket", "Service Ticket Request",
            "Service Ticket Renew", "Preauth", "Account Switch">> @@
  4001 :> <<"Open", "Close", "Reset", "Fail", "Refuse", "Traffic", "Listen">>

\* The constants the packages of these classes declare, spelled the same way.
ActivityConstants ==
  1007 :> <<"Launch", "Terminate", "Open", "Inject", "Set User ID">> @@
  3002 :> <<"Logon", "Logoff", "Authentication Ticket", "Service Ticket Request",
            "Service Ticket Renew", "Preauth", "Account Switch">> @@
  4001 :> <<"Open", "Close", "Reset", "Fail", "Refuse", "Traffic", "Listen">>

\* The name of an activity, by the key class_uid * 100 + activity_id.  The text
\* for the activities of the other classes is left out: only whether the table
\* has one is told.
ActivityName(classUID, activityID) ==
  IF classUID \in DOMAIN ActivityNames /\ activityID \in DOMAIN ActivityNames[classUID]
  THEN ActivityNames[classUID][activityID]
  ELSE IF classUID * 100 + activityID \in NamedActivities THEN "named" ELSE ""


\* type_uid: the category, the number of the class in its category and the
\* activity; a class below 100 is the base event.
ComputeTypeUID(categoryUID, classUID, activityID) ==
  IF classUID < 100 THEN classUID * 100 + activityID
  ELSE (categoryUID * 100 + (classUID % 1000)) * 100 + activityID

=============================================================================
