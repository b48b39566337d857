--------------------------- MODULE ClassValidators ---------------------------
(***************************************************************************)
(* The generated validators of ingest/internal/normalizer/generated.       *)
(* Each supports one class name and checks only events whose class_uid is  *)
(* the number written in its body, which is the number of the class within *)
(* its category (2 for authentication, whose class_uid is 3002): an actor  *)
(* with a user and a name where the class requires one, an activity_id     *)
(* among the listed ones (where the body lists some), and, for three       *)
(* classes, a status_id in 0 .. 99.                                        *)
(***************************************************************************)
EXTENDS Integers

\* activities = {} stands for a body without a check of activity_id.
ClassValidator(class, uid, needsUser, activities, checksStatus) ==
  [class |-> class, uid |-> uid, needsUser |-> needsUser,
   activities |-> activities, checksStatus |-> checksStatus]

AccountChangeValidator ==
  ClassValidator("account_change", 1, TRUE, 1 .. 12, FALSE)
AdminGroupQueryValidator ==
  ClassValidator("admin_group_query", 9, FALSE, {}, FALSE)
AirborneBroadcastActivityValidator ==
  ClassValidator("airborne_broadcast_activity", 2,
                 FALSE, (0 .. 2) \cup {99}, FALSE)
ApiActivityValidator == ClassValidator("api_activity", 3, FALSE, 1 .. 4, FALSE)
ApplicationErrorValidator ==
  ClassValidator("application_error", 8, FALSE, {1, 2}, FALSE)
ApplicationLifecycleValidator ==
  ClassValidator("application_lifecycle", 2, FALSE, 1 .. 8, FALSE)
ApplicationSecurityPostureFindingValidator ==
  ClassValidator("application_security_posture_finding", 7, FALSE, {}, FALSE)

AuthenticationValidator ==
  ClassValidator("authentication", 2, TRUE, 1 .. 7, FALSE)
AuthorizeSessionValidator ==
  ClassValidator("authorize_session", 3, TRUE, {1, 2}, FALSE)
CloudResourcesInventoryInfoValidator ==
  ClassValidator("cloud_resources_inventory_info", 23, FALSE, {}, FALSE)
ComplianceFindingValidator ==
  ClassValidator("compliance_finding", 3, FALSE, {}, FALSE)
ConfigStateValidator == ClassValidator("config_state", 2, FALSE, {}, FALSE)
DataSecurityFindingValidator ==
  ClassValidator("data_security_finding", 6, FALSE, 1 .. 4, FALSE)
DatastoreActivityValidator ==
  ClassValidator("datastore_activity", 5, FALSE, 1 .. 10, FALSE)
DetectionFindingValidator ==
  ClassValidator("detection_finding", 4, FALSE, {}, FALSE)
DeviceConfigStateChangeValidator ==
  ClassValidator("device_config_state_change", 19, FALSE, {}, FALSE)
DhcpActivityValidator ==
  ClassValidator("dhcp_activity", 4, FALSE, 1 .. 9, FALSE)
DnsActivityValidator ==
  ClassValidator("dns_activity", 3, FALSE, {1, 2, 6}, FALSE)
DroneFlightsActivityValidator ==
  ClassValidator("drone_flights_activity", 1, FALSE, (0 .. 2) \cup {99}, TRUE)
EmailActivityValidator ==
  ClassValidator("email_activity", 9, FALSE, 1 .. 5, FALSE)
EmailFileActivityValidator ==
  ClassValidator("email_file_activity", 11, FALSE, 1 .. 3, FALSE)
EmailUrlActivityValidator ==
  ClassValidator("email_url_activity", 12, FALSE, 1 .. 3, FALSE)
EntityManagementValidator ==
  ClassValidator("entity_management", 4, FALSE, 1 .. 13, FALSE)
EventLogActvityValidator ==
  ClassValidator("event_log_actvity", 8, FALSE, 1 .. 10, FALSE)
EvidenceInfoValidator == ClassValidator("evidence_info", 40, FALSE, {}, FALSE)
FileActivityValidator ==
  ClassValidator("file_activity", 1, FALSE, 1 .. 14, FALSE)
FileHostingValidator ==
  ClassValidator("file_hosting", 6, FALSE, 1 .. 17, FALSE)
FileQueryValidator == ClassValidator("file_query", 7, FALSE, {}, FALSE)
FileRemediationActivityValidator ==
  ClassValidator("file_remediation_activity", 2, FALSE, {}, FALSE)
FolderQueryValidator == ClassValidator("folder_query", 8, FALSE, {}, FALSE)
FtpActivityValidator == ClassValidator("ftp_activity", 8, FALSE, 1 .. 6, FALSE)
GroupManagementValidator ==
  ClassValidator("group_management", 6, FALSE, 1 .. 8, FALSE)
HttpActivityValidator ==
  ClassValidator("http_activity", 2, FALSE, 1 .. 9, FALSE)
IamAnalysisFindingValidator ==
  ClassValidator("iam_analysis_finding", 8, FALSE, {}, FALSE)
IncidentFindingValidator ==
  ClassValidator("incident_finding", 5, FALSE, 1 .. 3, TRUE)
InventoryInfoValidator == ClassValidator("inventory_info", 1, FALSE, {}, FALSE)
JobQueryValidator == ClassValidator("job_query", 10, FALSE, {}, FALSE)
KernelActivityValidator ==
  ClassValidator("kernel_activity", 3, FALSE, 1 .. 4, FALSE)
KernelExtensionActivityValidator ==
  ClassValidator("kernel_extension_activity", 2, FALSE, {1, 2}, FALSE)
KernelObjectQueryValidator ==
  ClassValidator("kernel_object_query", 6, FALSE, {}, FALSE)
MemoryActivityValidator ==
  ClassValidator("memory_activity", 4, FALSE, 1 .. 9, FALSE)
ModuleActivityValidator ==
  ClassValidator("module_activity", 5, FALSE, 1 .. 3, FALSE)
ModuleQueryValidator == ClassValidator("module_query", 11, FALSE, {}, FALSE)
NetworkActivityValidator ==
  ClassValidator("network_activity", 1, FALSE, 1 .. 7, FALSE)
NetworkConnectionQueryValidator ==
  ClassValidator("network_connection_query", 12, FALSE, {}, FALSE)
NetworkFileActivityValidator ==
  ClassValidator("network_file_activity", 10, FALSE, 1 .. 16, FALSE)
NetworkRemediationActivityValidator ==
  ClassValidator("network_remediation_activity", 4, FALSE, {}, FALSE)
NetworksQueryValidator ==
  ClassValidator("networks_query", 13, FALSE, {}, FALSE)
NtpActivityValidator ==
  ClassValidator("ntp_activity", 13, FALSE, (0 .. 7) \cup {99}, FALSE)
OsintInventoryInfoValidator ==
  ClassValidator("osint_inventory_info", 21, FALSE, {}, FALSE)
PatchStateValidator == ClassValidator("patch_state", 4, FALSE, {}, FALSE)
PeripheralActivityValidator ==
  ClassValidator("peripheral_activity", 10, FALSE, 1 .. 5, FALSE)
PeripheralDeviceQueryValidator ==
  ClassValidator("peripheral_device_query", 14, FALSE, {}, FALSE)
ProcessActivityValidator ==
  ClassValidator("process_activity", 7, FALSE, 1 .. 5, FALSE)
ProcessQueryValidator == ClassValidator("process_query", 15, FALSE, {}, FALSE)
ProcessRemediationActivityValidator ==
  ClassValidator("process_remediation_activity", 3, FALSE, {}, FALSE)
RdpActivityValidator == ClassValidator("rdp_activity", 5, FALSE, 1 .. 8, FALSE)
RemediationActivityValidator ==
  ClassValidator("remediation_activity", 1, FALSE, 1 .. 5, TRUE)
ScanActivityValidator ==
  ClassValidator("scan_activity", 7, FALSE, 1 .. 10, FALSE)
ScheduledJobActivityValidator ==
  ClassValidator("scheduled_job_activity", 6, FALSE, 1 .. 6, FALSE)
ScriptActivityValidator ==
  ClassValidator("script_activity", 9, FALSE, {1}, FALSE)
SecurityFindingValidator ==
  ClassValidator("security_finding", 1, FALSE, 1 .. 3, FALSE)
ServiceQueryValidator == ClassValidator("service_query", 16, FALSE, {}, FALSE)
SessionQueryValidator == ClassValidator("session_query", 17, FALSE, {}, FALSE)
SmbActivityValidator == ClassValidator("smb_activity", 6, FALSE, 1 .. 6, FALSE)
SoftwareInfoValidator == ClassValidator("software_info", 20, FALSE, {}, FALSE)
SshActivityValidator == ClassValidator("ssh_activity", 7, FALSE, 1 .. 7, FALSE)
StartupItemQueryValidator ==
  ClassValidator("startup_item_query", 22, FALSE, {}, FALSE)
TunnelActivityValidator ==
  ClassValidator("tunnel_activity", 14, FALSE, (0 .. 3) \cup {99}, FALSE)
UserAccessValidator == ClassValidator("user_access", 5, TRUE, {1, 2}, FALSE)
UserInventoryValidator == ClassValidator("user_inventory", 3, TRUE, {}, FALSE)
UserQueryValidator == ClassValidator("user_query", 18, TRUE, {}, FALSE)
VulnerabilityFindingValidator ==
  ClassValidator("vulnerability_finding", 2, FALSE, {}, FALSE)
WebResourceAccessActivityValidator ==
  ClassValidator("web_resource_access_activity", 4, FALSE, 1 .. 4, FALSE)
WebResourcesActivityValidator ==
  ClassValidator("web_resources_activity", 1, FALSE, 1 .. 8, FALSE)

AllValidators ==
  {ApiActivityValidator, ApplicationErrorValidator,
   ApplicationLifecycleValidator, DatastoreActivityValidator,
   FileHostingValidator, ScanActivityValidator,
   WebResourceAccessActivityValidator, WebResourcesActivityValidator,
   AdminGroupQueryValidator, CloudResourcesInventoryInfoValidator,
   ConfigStateValidator, DeviceConfigStateChangeValidator,
   EvidenceInfoValidator, FileQueryValidator, FolderQueryValidator,
   InventoryInfoValidator, JobQueryValidator, KernelObjectQueryValidator,
   ModuleQueryValidator, NetworkConnectionQueryValidator,
   NetworksQueryValidator, OsintInventoryInfoValidator, PatchStateValidator,
   PeripheralDeviceQueryValidator, ProcessQueryValidator,
   ServiceQueryValidator, SessionQueryValidator, SoftwareInfoValidator,
   StartupItemQueryValidator, UserInventoryValidator, UserQueryValidator,
   ApplicationSecurityPostureFindingValidator, ComplianceFindingValidator,
   DataSecurityFindingValidator, DetectionFindingValidator,
   IamAnalysisFindingValidator, IncidentFindingValidator,
   SecurityFindingValidator, VulnerabilityFindingValidator,
   AccountChangeValidator, AuthenticationValidator,
   AuthorizeSessionValidator, EntityManagementValidator,
   GroupManagementValidator, UserAccessValidator, DhcpActivityValidator,
   DnsActivityValidator, EmailActivityValidator, EmailFileActivityValidator,
   EmailUrlActivityValidator, FtpActivityValidator, HttpActivityValidator,
   NetworkActivityValidator, NetworkFileActivityValidator,
   NtpActivityValidator, RdpActivityValidator, SmbActivityValidator,
   SshActivityValidator, TunnelActivityValidator,
   FileRemediationActivityValidator, NetworkRemediationActivityValidator,
   ProcessRemediationActivityValidator, RemediationActivityValidator,
   EventLogActvityValidator, FileActivityValidator, KernelActivityValidator,
   KernelExtensionActivityValidator, MemoryActivityValidator,
   ModuleActivityValidator, PeripheralActivityValidator,
   ProcessActivityValidator, ScheduledJobActivityValidator,
   ScriptActivityValidator, AirborneBroadcastActivityValidator,
   DroneFlightsActivityValidator}

\* What a generated validator checks of an event of its class.
ClassChecks(v, event) ==
  /\ v.needsUser => event.user # ""
  /\ v.activities # {} /\ event.activity_id # 0
       => event.activity_id \in v.activities
  /\ v.checksStatus => event.status_id \in 0 .. 99

\* Validate of one generated validator accepts the event.
ValidateClass(v, event) == event.class_uid # v.uid \/ ClassChecks(v, event)

==============================================================================
