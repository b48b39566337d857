-------------------------- MODULE ClassNormalizers --------------------------
(***************************************************************************)
(* The generated normalizers of ingest/internal/normalizer/generated: the  *)
(* class each one creates and the words it looks for in the source type.   *)
(* A normalizer supports an envelope when the lower-case source type       *)
(* contains one of its words.  All bodies of Normalize are the same code,  *)
(* NormalizeAs of module Normalization.                                    *)
(***************************************************************************)
EXTENDS OcsfClasses, Sequences

ClassNormalizer(class, words) == [class |-> class, words |-> words]

AccountChangeNormalizer ==
  ClassNormalizer(AccountChange, {"account_change", "account"})
AdminGroupQueryNormalizer ==
  ClassNormalizer(AdminGroupQuery, {"admin_group_query", "admin"})
AirborneBroadcastActivityNormalizer ==
  ClassNormalizer(AirborneBroadcastActivity,
    {"airborne_broadcast_activity", "airborne", "airborne_broadcast"})
ApiActivityNormalizer == ClassNormalizer(ApiActivity, {"api_activity", "api"})
ApplicationErrorNormalizer ==
  ClassNormalizer(ApplicationError, {"application_error", "application"})
ApplicationLifecycleNormalizer ==
  ClassNormalizer(ApplicationLifecycle,
    {"application_lifecycle", "application"})
ApplicationSecurityPostureFindingNormalizer ==
  ClassNormalizer(ApplicationSecurityPostureFinding,
    {"application_security_posture_finding", "application"})
AuthenticationNormalizer ==
  ClassNormalizer(Authentication,
    {"auth", "login", "logon", "session", "sso", "oauth", "saml", "ldap",
     "kerberos", "ad_auth"})
AuthorizeSessionNormalizer ==
  ClassNormalizer(AuthorizeSession, {"authorize_session", "authorize"})
CloudResourcesInventoryInfoNormalizer ==
  ClassNormalizer(CloudResourcesInventoryInfo,
    {"cloud_resources_inventory_info", "cloud"})
ComplianceFindingNormalizer ==
  ClassNormalizer(ComplianceFinding, {"compliance_finding", "compliance"})
ConfigStateNormalizer ==
  ClassNormalizer(ConfigState, {"config_state", "config"})
DataSecurityFindingNormalizer ==
  ClassNormalizer(DataSecurityFinding, {"data_security_finding", "data"})
DatastoreActivityNormalizer ==
  ClassNormalizer(DatastoreActivity, {"datastore_activity", "datastore"})
DetectionFindingNormalizer ==
  ClassNormalizer(DetectionFinding,
    {"alert", "detection", "security", "ids", "ips", "edr", "av", "antivirus"})
DeviceConfigStateChangeNormalizer ==
  ClassNormalizer(DeviceConfigStateChange,
    {"device_config_state_change", "device"})
DhcpActivityNormalizer ==
  ClassNormalizer(DhcpActivity, {"dhcp_activity", "dhcp"})
DiscoveryResultNormalizer ==
  ClassNormalizer(DiscoveryResult, {"discovery_result", "discovery"})
DnsActivityNormalizer == ClassNormalizer(DnsActivity, {"dns", "bind", "named"})
DroneFlightsActivityNormalizer ==
  ClassNormalizer(DroneFlightsActivity,
    {"drone_flights_activity", "drone", "drone_flights"})
EmailActivityNormalizer ==
  ClassNormalizer(EmailActivity, {"email_activity", "email"})
EmailFileActivityNormalizer ==
  ClassNormalizer(EmailFileActivity,
    {"email_file_activity", "email", "email_file"})
EmailUrlActivityNormalizer ==
  ClassNormalizer(EmailUrlActivity,
    {"email_url_activity", "email", "email_url"})
EntityManagementNormalizer ==
  ClassNormalizer(EntityManagement, {"entity_management", "entity"})
EventLogActvityNormalizer ==
  ClassNormalizer(EventLogActvity, {"event_log_actvity", "event"})
EvidenceInfoNormalizer ==
  ClassNormalizer(EvidenceInfo, {"evidence_info", "evidence"})
FileActivityNormalizer ==
  ClassNormalizer(FileActivity,
    {"file", "fmon", "fsmon", "filesystem", "audit"})
FileHostingNormalizer == ClassNormalizer(FileHosting, {"file_hosting", "file"})
FileQueryNormalizer == ClassNormalizer(FileQuery, {"file_query", "file"})
FileRemediationActivityNormalizer ==
  ClassNormalizer(FileRemediationActivity,
    {"file_remediation_activity", "file", "file_remediation"})
FindingNormalizer == ClassNormalizer(Finding, {"finding"})
FolderQueryNormalizer ==
  ClassNormalizer(FolderQuery, {"folder_query", "folder"})
FtpActivityNormalizer == ClassNormalizer(FtpActivity, {"ftp_activity", "ftp"})
GroupManagementNormalizer ==
  ClassNormalizer(GroupManagement, {"group_management", "group"})
HttpActivityNormalizer ==
  ClassNormalizer(HttpActivity,
    {"http", "https", "web", "apache", "nginx", "iis", "access_log"})
IamAnalysisFindingNormalizer ==
  ClassNormalizer(IamAnalysisFinding, {"iam_analysis_finding", "iam"})
IncidentFindingNormalizer ==
  ClassNormalizer(IncidentFinding, {"incident_finding", "incident"})
InventoryInfoNormalizer ==
  ClassNormalizer(InventoryInfo, {"inventory_info", "inventory"})
JobQueryNormalizer == ClassNormalizer(JobQuery, {"job_query", "job"})
KernelActivityNormalizer ==
  ClassNormalizer(KernelActivity, {"kernel_activity", "kernel"})
KernelExtensionActivityNormalizer ==
  ClassNormalizer(KernelExtensionActivity,
    {"kernel_extension_activity", "kernel", "kernel_extension"})
KernelObjectQueryNormalizer ==
  ClassNormalizer(KernelObjectQuery, {"kernel_object_query", "kernel"})
MemoryActivityNormalizer ==
  ClassNormalizer(MemoryActivity, {"memory_activity", "memory"})
ModuleActivityNormalizer ==
  ClassNormalizer(ModuleActivity, {"module_activity", "module"})
ModuleQueryNormalizer ==
  ClassNormalizer(ModuleQuery, {"module_query", "module"})
NetworkActivityNormalizer ==
  ClassNormalizer(NetworkActivity,
    {"network", "traffic", "connection", "flow", "firewall", "proxy",
     "netflow"})
NetworkConnectionQueryNormalizer ==
  ClassNormalizer(NetworkConnectionQuery,
    {"network_connection_query", "network"})
NetworkFileActivityNormalizer ==
  ClassNormalizer(NetworkFileActivity,
    {"network_file_activity", "network", "network_file"})
NetworkRemediationActivityNormalizer ==
  ClassNormalizer(NetworkRemediationActivity,
    {"network_remediation_activity", "network", "network_remediation"})
NetworksQueryNormalizer ==
  ClassNormalizer(NetworksQuery, {"networks_query", "networks"})
NtpActivityNormalizer == ClassNormalizer(NtpActivity, {"ntp_activity", "ntp"})
OsintInventoryInfoNormalizer ==
  ClassNormalizer(OsintInventoryInfo, {"osint_inventory_info", "osint"})
PatchStateNormalizer == ClassNormalizer(PatchState, {"patch_state", "patch"})
PeripheralActivityNormalizer ==
  ClassNormalizer(PeripheralActivity, {"peripheral_activity", "peripheral"})
PeripheralDeviceQueryNormalizer ==
  ClassNormalizer(PeripheralDeviceQuery,
    {"peripheral_device_query", "peripheral"})
ProcessActivityNormalizer ==
  ClassNormalizer(ProcessActivity,
    {"process", "exec", "sysmon", "procmon", "endpoint"})
ProcessQueryNormalizer ==
  ClassNormalizer(ProcessQuery, {"process_query", "process"})
ProcessRemediationActivityNormalizer ==
  ClassNormalizer(ProcessRemediationActivity,
    {"process_remediation_activity", "process", "process_remediation"})
RdpActivityNormalizer == ClassNormalizer(RdpActivity, {"rdp_activity", "rdp"})
RemediationActivityNormalizer ==
  ClassNormalizer(RemediationActivity, {"remediation_activity", "remediation"})
ScanActivityNormalizer ==
  ClassNormalizer(ScanActivity, {"scan_activity", "scan"})
ScheduledJobActivityNormalizer ==
  ClassNormalizer(ScheduledJobActivity,
    {"scheduled_job_activity", "scheduled", "scheduled_job"})
ScriptActivityNormalizer ==
  ClassNormalizer(ScriptActivity, {"script_activity", "script"})
SecurityFindingNormalizer ==
  ClassNormalizer(SecurityFinding, {"security_finding", "security"})
ServiceQueryNormalizer ==
  ClassNormalizer(ServiceQuery, {"service_query", "service"})
SessionQueryNormalizer ==
  ClassNormalizer(SessionQuery, {"session_query", "session"})
SmbActivityNormalizer == ClassNormalizer(SmbActivity, {"smb_activity", "smb"})
SoftwareInfoNormalizer ==
  ClassNormalizer(SoftwareInfo, {"software_info", "software"})
SshActivityNormalizer == ClassNormalizer(SshActivity, {"ssh_activity", "ssh"})
StartupItemQueryNormalizer ==
  ClassNormalizer(StartupItemQuery, {"startup_item_query", "startup"})
TunnelActivityNormalizer ==
  ClassNormalizer(TunnelActivity, {"tunnel_activity", "tunnel"})
UserAccessNormalizer == ClassNormalizer(UserAccess, {"user_access", "user"})
UserInventoryNormalizer ==
  ClassNormalizer(UserInventory, {"user_inventory", "user"})
UserQueryNormalizer == ClassNormalizer(UserQuery, {"user_query", "user"})
VulnerabilityFindingNormalizer ==
  ClassNormalizer(VulnerabilityFinding,
    {"vulnerability_finding", "vulnerability"})
WebResourceAccessActivityNormalizer ==
  ClassNormalizer(WebResourceAccessActivity,
    {"web_resource_access_activity", "web", "web_resource_access"})
WebResourcesActivityNormalizer ==
  ClassNormalizer(WebResourcesActivity,
    {"web_resources_activity", "web", "web_resources"})

\* The order of the registry decides which of several matches is used.
AllNormalizers ==
  <<ApiActivityNormalizer, ApplicationErrorNormalizer,
    ApplicationLifecycleNormalizer, DatastoreActivityNormalizer,
    FileHostingNormalizer, ScanActivityNormalizer,
    WebResourceAccessActivityNormalizer, WebResourcesActivityNormalizer,
    AdminGroupQueryNormalizer, CloudResourcesInventoryInfoNormalizer,
    ConfigStateNormalizer, DeviceConfigStateChangeNormalizer,
    EvidenceInfoNormalizer, FileQueryNormalizer, FolderQueryNormalizer,
    InventoryInfoNormalizer, JobQueryNormalizer, KernelObjectQueryNormalizer,
    ModuleQueryNormalizer, NetworkConnectionQueryNormalizer,
    NetworksQueryNormalizer, OsintInventoryInfoNormalizer,
    PatchStateNormalizer, PeripheralDeviceQueryNormalizer,
    ProcessQueryNormalizer, ServiceQueryNormalizer, SessionQueryNormalizer,
    SoftwareInfoNormalizer, StartupItemQueryNormalizer,
    UserInventoryNormalizer, UserQueryNormalizer,
    ApplicationSecurityPostureFindingNormalizer, ComplianceFindingNormalizer,
    DataSecurityFindingNormalizer, DetectionFindingNormalizer,
    IamAnalysisFindingNormalizer, IncidentFindingNormalizer,
    SecurityFindingNormalizer, VulnerabilityFindingNormalizer,
    AccountChangeNormalizer, AuthenticationNormalizer,
    AuthorizeSessionNormalizer, EntityManagementNormalizer,
    GroupManagementNormalizer, UserAccessNormalizer, DhcpActivityNormalizer,
    DnsActivityNormalizer, EmailActivityNormalizer,
    EmailFileActivityNormalizer, EmailUrlActivityNormalizer,
    FtpActivityNormalizer, HttpActivityNormalizer, NetworkActivityNormalizer,
    NetworkFileActivityNormalizer, NtpActivityNormalizer,
    RdpActivityNormalizer, SmbActivityNormalizer, SshActivityNormalizer,
    TunnelActivityNormalizer, FileRemediationActivityNormalizer,
    NetworkRemediationActivityNormalizer,
    ProcessRemediationActivityNormalizer, RemediationActivityNormalizer,
    EventLogActvityNormalizer, FileActivityNormalizer,
    KernelActivityNormalizer, KernelExtensionActivityNormalizer,
    MemoryActivityNormalizer, ModuleActivityNormalizer,
    PeripheralActivityNormalizer, ProcessActivityNormalizer,
    ScheduledJobActivityNormalizer, ScriptActivityNormalizer,
    AirborneBroadcastActivityNormalizer, DroneFlightsActivityNormalizer>>

\* strings.Contains over the words used here: the longer words each word is
\* found in.
LongerWords ==
  [account |-> {"account_change"}, admin |-> {"admin_group_query"},
   airborne |-> {"airborne_broadcast", "airborne_broadcast_activity"},
   airborne_broadcast |-> {"airborne_broadcast_activity"},
   api |-> {"api_activity"}, application |-> {"application_error",
   "application_lifecycle", "application_security_posture_finding"},
   auth |-> {"ad_auth", "authentication", "authorize", "authorize_session",
   "oauth"}, authorize |-> {"authorize_session"},
   cloud |-> {"cloud_resources_inventory_info"},
   compliance |-> {"compliance_finding"}, config |-> {"config_state",
   "device_config_state_change"},
   config_state |-> {"device_config_state_change"},
   connect |-> {"disconnect", "reconnect"},
   connection |-> {"network_connection_query"},
   data |-> {"data_security_finding", "datastore", "datastore_activity"},
   datastore |-> {"datastore_activity"}, detection |-> {"detection_finding"},
   device |-> {"device_config_state_change", "peripheral_device_query"},
   dhcp |-> {"dhcp_activity"}, dns |-> {"dns_activity"},
   drone |-> {"drone_flights", "drone_flights_activity"},
   drone_flights |-> {"drone_flights_activity"}, email |-> {"email_activity",
   "email_file", "email_file_activity", "email_url", "email_url_activity"},
   email_file |-> {"email_file_activity"},
   email_url |-> {"email_url_activity"}, entity |-> {"entity_management"},
   event |-> {"event_log_actvity"}, evidence |-> {"evidence_info"},
   file |-> {"email_file", "email_file_activity", "file_activity",
   "file_hosting", "file_query", "file_remediation",
   "file_remediation_activity", "filesystem", "network_file",
   "network_file_activity"},
   file_remediation |-> {"file_remediation_activity"}, flow |-> {"netflow"},
   folder |-> {"folder_query"}, ftp |-> {"ftp_activity"},
   group |-> {"admin_group_query", "group_management"},
   http |-> {"http_activity", "https"}, iam |-> {"iam_analysis_finding"},
   incident |-> {"incident_finding"},
   inventory |-> {"cloud_resources_inventory_info", "inventory_info",
   "osint_inventory_info", "user_inventory"},
   inventory_info |-> {"cloud_resources_inventory_info",
   "osint_inventory_info"}, job |-> {"job_query", "scheduled_job",
   "scheduled_job_activity"}, kernel |-> {"kernel_activity",
   "kernel_extension", "kernel_extension_activity", "kernel_object_query"},
   kernel_extension |-> {"kernel_extension_activity"},
   memory |-> {"memory_activity"}, module |-> {"module_activity",
   "module_query"}, network |-> {"network_activity",
   "network_connection_query", "network_file", "network_file_activity",
   "network_remediation", "network_remediation_activity", "networks",
   "networks_query"}, network_file |-> {"network_file_activity"},
   network_remediation |-> {"network_remediation_activity"},
   networks |-> {"networks_query"}, ntp |-> {"ntp_activity"},
   osint |-> {"osint_inventory_info"}, patch |-> {"patch_state"},
   peripheral |-> {"peripheral_activity", "peripheral_device_query"},
   process |-> {"process_activity", "process_query", "process_remediation",
   "process_remediation_activity"},
   process_remediation |-> {"process_remediation_activity"},
   rdp |-> {"rdp_activity"}, remediation |-> {"file_remediation",
   "file_remediation_activity", "network_remediation",
   "network_remediation_activity", "process_remediation",
   "process_remediation_activity", "remediation_activity"},
   remediation_activity |-> {"file_remediation_activity",
   "network_remediation_activity", "process_remediation_activity"},
   scan |-> {"scan_activity"}, scheduled |-> {"scheduled_job",
   "scheduled_job_activity"}, scheduled_job |-> {"scheduled_job_activity"},
   script |-> {"script_activity"},
   security |-> {"application_security_posture_finding",
   "data_security_finding", "security_finding"},
   security_finding |-> {"data_security_finding"},
   service |-> {"service_query"}, session |-> {"authorize_session",
   "session_query"}, smb |-> {"smb_activity"},
   software |-> {"software_info"}, ssh |-> {"ssh_activity"},
   startup |-> {"startup_item_query"}, tunnel |-> {"tunnel_activity"},
   user |-> {"user_access", "user_inventory", "user_query"},
   vulnerability |-> {"vulnerability_finding"},
   web |-> {"web_resource_access", "web_resource_access_activity",
   "web_resources", "web_resources_activity"},
   web_resource_access |-> {"web_resource_access_activity"},
   web_resources |-> {"web_resources_activity"}]

ContainsWord(s, word) ==
  s = word \/ (word \in DOMAIN LongerWords /\ s \in LongerWords[word])

\* Supports of a generated normalizer: the format is always "json" here.
SupportsClass(n, sourceType) == \E word \in n.words : ContainsWord(sourceType, word)

=============================================================================
