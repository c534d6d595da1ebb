----------------------------- MODULE Migrations -----------------------------
(***************************************************************************)
(* alembic/versions: what each revision does to the database, up and down. *)
(*                                                                         *)
(* A revision is a record of the tables it creates, in that order (its     *)
(* downgrade drops them in the reverse order), of what it adds to tables   *)
(* that are there, of the CHECKs it widens, drops and restores, and of the *)
(* rows it inserts.  Stand-alone indexes, views, policies, roles of the    *)
(* server and grants are `objects`; the indexes of a table that is created *)
(* in the same revision go and come with it.  Types and defaults of        *)
(* columns are left out, and so are the settings that a revision inserts   *)
(* and no other revision looks at (severities, authentication methods,     *)
(* retention days).                                                        *)
(***************************************************************************)
EXTENDS Naturals, Sequences
-----------------------------------------------------------------------------
\* A table: its name, its columns, its unique keys, its foreign keys as
\* <<column, table, ON DELETE rule>>.
Keyless(name, columns, keys, refs) ==
  [name |-> name, columns |-> columns, keys |-> keys, refs |-> refs]
Table(name, columns, keys, refs) == Keyless(name, columns \cup {"id"}, keys, refs)

\* Rules of one kind, by slug.
Rules(logic, slugs) == slugs \X {logic}

\* A revision that does nothing; the others say what they do beyond that.
\*   allows, back   the values a CHECK admits after the upgrade, after the downgrade
\*   unchecked      the CHECKs the upgrade drops
\*   overwrites     ON CONFLICT DO UPDATE rather than DO NOTHING
\*   heirOf         the role that the holders of an old role get; the old ones are deleted
Blank ==
  [creates |-> <<>>, adds |-> {}, newKeys |-> {}, newRefs |-> {}, objects |-> {},
   gone |-> {}, allows |-> <<>>, unchecked |-> {}, back |-> <<>>, rules |-> {},
   source |-> "manual", renames |-> {}, feeds |-> {}, playbooks |-> {},
   overwrites |-> FALSE, roles |-> {}, heirOf |-> <<>>]

StoreSources == {"s3", "azure_blob", "minio"}
SeverityNames == {"critical", "high", "medium", "low", "info"}
FirstLogic == {"threshold", "pattern", "sequence", "statistical"}
-----------------------------------------------------------------------------
Events0001 ==
  <<Table("events",
      {"document_id", "created_at", "ingested_at", "action", "namespace", "actor",
       "actor_id", "actor_is_bot", "org", "org_id", "repo", "repo_id", "business",
       "business_id", "source_ip", "user_agent", "geo_country_code", "geo_city",
       "geo_latitude", "geo_longitude", "geo_is_proxy", "data", "ingestion_source",
       "source_file_path"}, {}, {}),
    Keyless("event_dedup",
      {"document_id", "event_id", "created_at", "ingested_at"}, {}, {}),
    Table("event_raw_payloads",
      {"document_id", "source_file", "raw_json", "event_id", "ingested_at"},
      {{"document_id"}}, {}),
    Table("ingestion_cursors",
      {"source_type", "source_name", "source_region", "source_prefix", "last_prefix",
       "last_file", "last_event_count", "last_processed_at", "status", "error_message",
       "error_count", "poll_interval_sec", "created_at", "updated_at"},
      {{"source_name", "source_type"}}, {})>>
Roles0001 ==
  <<Table("rbac_roles",
      {"name", "display_name", "description", "permissions", "created_at"}, {{"name"}}, {}),
    Table("user_role_assignments",
      {"github_login", "github_team_id", "github_team_slug", "saml_subject", "role_id",
       "scope_type", "scope_value", "granted_by", "granted_at", "expires_at", "active"},
      {}, {<<"role_id", "rbac_roles", "">>})>>
Rules0001 ==
  <<Table("rule_definitions",
      {"name", "slug", "description", "category", "default_severity", "default_confidence",
       "logic_type", "logic_config", "enabled", "status", "version", "git_commit_sha",
       "created_by", "updated_by", "created_at", "updated_at"}, {{"slug"}}, {}),
    Table("rule_versions",
      {"rule_id", "version", "logic_config", "change_summary", "changed_by",
       "git_commit_sha", "created_at"},
      {{"rule_id", "version"}}, {<<"rule_id", "rule_definitions", "cascade">>}),
    Table("detection_suppressions",
      {"rule_id", "suppress_actor", "suppress_org", "suppress_repo", "reason", "created_by",
       "expires_at", "active", "created_at", "updated_at"},
      {}, {<<"rule_id", "rule_definitions", "">>})>>
Detections0001 ==
  <<Table("detections",
      {"rule_id", "rule_version", "triggered_at", "window_start", "window_end", "severity",
       "confidence", "confidence_score", "status", "assigned_to", "title", "description",
       "actor", "org", "repo", "source_ip", "event_ids", "context_data", "resolved_at",
       "resolved_by", "resolution_note", "suppressed_by", "created_at", "updated_at"},
      {},
      {<<"rule_id", "rule_definitions", "">>, <<"suppressed_by", "detection_suppressions", "">>}),
    Table("severity_configs",
      {"action_pattern", "default_severity", "custom_severity", "notes", "updated_by",
       "updated_at"}, {{"action_pattern"}}, {}),
    Table("behavioral_baselines",
      {"baseline_type", "scope_key", "metric_name", "window_start", "window_end", "mean",
       "stddev", "p95", "p99", "sample_count", "computed_at"},
      {{"baseline_type", "metric_name", "scope_key", "window_start"}}, {})>>
Integrations0001 ==
  <<Table("audit_trail",
      {"timestamp", "user_login", "user_github_id", "ip_address", "user_agent",
       "action_type", "resource_type", "resource_id", "parameters", "outcome",
       "error_detail"}, {}, {}),
    Table("idp_actor_enrichments",
      {"github_login", "idp_provider", "idp_user_id", "email", "display_name", "department",
       "title", "employment_status", "manager_login", "location", "timezone",
       "raw_attributes", "last_synced_at", "sync_error"},
      {{"github_login", "idp_provider"}}, {}),
    Table("ticketing_configs",
      {"provider", "display_name", "target", "project_key", "default_issue_type",
       "severity_priority_map", "auto_create", "auto_create_severities",
       "credential_env_var", "enabled", "created_by", "created_at", "updated_at"}, {}, {}),
    Table("tickets",
      {"ticketing_config_id", "detection_id", "external_id", "external_url",
       "external_status", "created_by", "created_at", "last_synced_at"},
      {{"detection_id", "ticketing_config_id"}},
      {<<"ticketing_config_id", "ticketing_configs", "">>, <<"detection_id", "detections", "">>}),
    Table("notification_configs",
      {"channel_type", "display_name", "target", "credential_env_var", "notify_severities",
       "cooldown_seconds", "enabled", "created_by", "created_at", "updated_at"}, {}, {})>>
Checks0001 ==
  [ingestion_source |-> StoreSources, source_type |-> StoreSources,
   cursor_status |-> {"active", "paused", "error", "backfilling"},
   role_name |-> {"analyst", "report_admin", "rule_author", "sys_admin"},
   scope_type |-> {"global", "org", "repo"},
   severity |-> SeverityNames, confidence |-> {"high", "medium", "low"},
   logic_type |-> FirstLogic, rule_status |-> {"draft", "active", "deprecated"},
   detection_status |-> {"open", "investigating", "resolved", "false_positive"},
   outcome |-> {"success", "denied", "error"},
   idp_provider |-> {"okta", "entra", "google_workspace"},
   employment_status |-> {"active", "inactive", "unknown"},
   ticketing_provider |-> {"jira", "github_issues"}, channel_type |-> {"slack", "email"}]
R0001 ==
  [Blank EXCEPT !.creates = Events0001 \o Roles0001 \o Rules0001 \o Detections0001
                            \o Integrations0001,
    !.objects = {"app_rw", "app_ro", "readonly_query_user", "detections_daily",
                 "events_hourly", "events_daily_actor"},
    !.allows = Checks0001, !.roles = Checks0001.role_name]
R0002 ==
  [Blank EXCEPT !.creates = <<Table("external_collaborators",
        {"org", "repo", "github_login", "github_id", "role", "granted_at", "granted_by",
         "is_active", "removed_at", "removed_by", "last_event_at", "source_event_id",
         "created_at", "updated_at"}, {{"github_login", "org", "repo"}}, {})>>,
    !.allows = [collaborator_role |->
      {"read", "triage", "write", "maintain", "admin", "outside_collaborator",
       "guest_collaborator"}]]
Access0003 ==
  Rules("threshold", {"bulk-repo-harvesting"})
  \cup Rules("pattern",
    {"pat-classic-full-repo-scope", "pat-fine-grained-all-repos-write",
     "integration-install-org-level", "push-protection-bypass",
     "branch-protection-override"})
Bypass0003 ==
  Rules("threshold", {"repeat-bypass-offender"})
  \cup Rules("pattern",
    {"admin-bypass-critical", "external-collaborator-grant",
     "external-collaborator-elevated", "emu-guest-role-grant"})
R0003 ==
  [Blank EXCEPT !.rules = Access0003 \cup Bypass0003]
R0004 ==
  [Blank EXCEPT !.creates = <<Table("github_app_configs",
        {"created_at", "updated_at", "app_id", "installation_id", "enterprise_slug",
         "org_login", "enabled"}, {{"app_id", "installation_id"}}, {}),
      Table("enterprise_sync_runs",
        {"created_at", "status", "trigger_type", "triggered_by", "scope", "started_at",
         "completed_at", "error_message", "entity_counts"}, {}, {}),
      Table("enterprise_sync_entity_cursors",
        {"created_at", "run_id", "entity_type", "org", "last_cursor", "items_synced",
         "status"},
        {{"entity_type", "org", "run_id"}},
        {<<"run_id", "enterprise_sync_runs", "cascade">>})>>]
R0005 ==
  [Blank EXCEPT !.creates = <<Table("enterprise_orgs",
        {"created_at", "enterprise_slug", "org_login", "org_id", "visibility", "plan",
         "member_count", "synced_at"}, {{"enterprise_slug", "org_login"}}, {}),
      Table("enterprise_members",
        {"created_at", "enterprise_slug", "github_login", "github_id", "role", "synced_at"},
        {{"enterprise_slug", "github_login"}}, {}),
      Table("github_app_installations",
        {"created_at", "app_id", "installation_id", "target_type", "target_login",
         "permissions", "synced_at"}, {{"app_id", "installation_id"}}, {})>>]
R0006 ==
  [Blank EXCEPT !.creates = <<Table("org_members",
        {"created_at", "org", "github_login", "github_id", "role", "synced_at"},
        {{"github_login", "org"}}, {}),
      Table("org_teams",
        {"created_at", "org", "team_slug", "team_id", "name", "privacy", "parent_team_slug",
         "synced_at"}, {{"org", "team_slug"}}, {}),
      Table("org_team_members",
        {"created_at", "org", "team_slug", "github_login", "github_id", "role", "synced_at"},
        {{"github_login", "org", "team_slug"}}, {})>>]
R0007 ==
  [Blank EXCEPT !.creates = <<Table("repositories",
        {"created_at", "org", "repo_name", "repo_id", "visibility", "default_branch",
         "archived", "fork", "pushed_at", "synced_at"}, {{"org", "repo_name"}}, {}),
      Table("repo_branch_protections",
        {"created_at", "org", "repo_name", "branch", "required_reviews",
         "required_status_checks", "enforce_admins", "synced_at"},
        {{"branch", "org", "repo_name"}}, {})>>,
    !.adds = 
      {<<"external_collaborators", "data_source">>,
       <<"external_collaborators", "last_synced_at">>,
       <<"external_collaborators", "sync_run_id">>},
    !.newRefs = 
     {<<"external_collaborators", "sync_run_id", "enterprise_sync_runs", "null">>}]
R0008 ==
  [Blank EXCEPT !.creates = <<Table("system_health_events",
        {"occurred_at", "org", "signal_type", "severity", "detail", "resolved_at"}, {}, {})>>]
Disabling0009 ==
  Rules("pattern",
    {"audit-stream-destination-changed", "audit-stream-disabled", "secret-scanning-disable",
     "push-protection-disable", "codeql-disable", "ghas-disable"})
  \cup Rules("threshold", {"bulk-security-feature-disable"})
Exposure0009 ==
  Rules("pattern",
    {"secret-scanning-public-leak", "repo-private-to-public", "repo-internal-to-public",
     "org-member-to-admin", "ip-allowlist-disabled", "saml-sso-disabled"})
  \cup Rules("threshold", {"secret-scanning-dismissal-spike"})
R0009 ==
  [Blank EXCEPT !.rules = Disabling0009 \cup Exposure0009]
Apps0010 ==
  Rules("threshold",
    {"code-scanning-bulk-dismissal", "webhook-bulk-creation"})
  \cup Rules("pattern",
    {"code-scanning-alert-reappeared", "webhook-external-domain", "webhook-all-events",
     "oauth-app-restrictions-disabled"})
Grants0010 ==
  Rules("pattern",
    {"github-app-all-tokens-revoked", "org-integration-manager-granted",
     "custom-org-role-created"})
  \cup Rules("threshold",
    {"ip-allowlist-bulk-removal", "bulk-repo-zip-download"})
  \cup Rules("sequence", {"private-repo-fork-then-zip"})
R0010 ==
  [Blank EXCEPT !.rules = Apps0010 \cup Grants0010]
Weakening0011 ==
  Rules("pattern",
    {"workflow-excessive-secrets", "branch-protection-weakened",
     "required-status-check-removed", "environment-self-review-enabled",
     "environment-approvers-removed"})
Copilot0011 ==
  Rules("pattern",
    {"copilot-seats-opened-to-all", "copilot-swe-agent-repo-enabled",
     "copilot-custom-instructions-changed", "codespace-export-from-repo",
     "dependabot-alerts-disabled"})
R0011 ==
  [Blank EXCEPT !.rules = Weakening0011 \cup Copilot0011]
Chains0012 ==
  Rules("cross_namespace_sequence",
    {"supply-chain-staging-sequence", "security-control-erasure",
     "privilege-pivot-oauth-approval", "insider-bulk-exfil", "defense-evasion-then-exfil"})
R0012 ==
  [Blank EXCEPT !.rules = Chains0012,
    !.allows = [logic_type |-> FirstLogic \cup {"cross_namespace_sequence"}],
    \* the downgrade leaves the CHECK as it is
    !.back = [logic_type |-> FirstLogic \cup {"cross_namespace_sequence"}]]
R0013 ==
  [Blank EXCEPT !.adds = 
      {<<"behavioral_baselines", "push_bypass_hourly_mean">>,
       <<"behavioral_baselines", "push_bypass_hourly_stddev">>,
       <<"behavioral_baselines", "alert_dismiss_daily_mean">>,
       <<"behavioral_baselines", "alert_dismiss_daily_stddev">>,
       <<"behavioral_baselines", "admin_action_daily_mean">>,
       <<"behavioral_baselines", "admin_action_daily_stddev">>}]
R0014 ==
  [Blank EXCEPT !.creates = <<Table("threat_intel_domains",
        {"domain", "source", "confidence", "active", "added_at", "added_by", "expires_at",
         "notes"}, {{"domain"}}, {})>>]
R0015 ==
  [Blank EXCEPT !.creates = <<Table("app_settings",
        {"key", "encrypted_value", "category", "sensitivity", "description", "updated_by",
         "created_at", "updated_at"}, {{"key"}}, {}),
      Table("app_settings_audit",
        {"setting_key", "action", "changed_by", "old_value_masked", "new_value_masked",
         "created_at"}, {}, {}),
      Table("setup_state",
        {"is_complete", "completed_by", "completed_at", "setup_token_hash", "created_at"},
        {}, {})>>]
R0016 ==
  [Blank EXCEPT !.creates = <<Table("org_config",
        {"org_slug", "copilot_cost_per_seat", "created_at", "updated_at"},
        {{"org_slug"}}, {})>>,
    !.newKeys = {<<"org_config", {"org_slug"}>>}]
R0017 ==
  [Blank EXCEPT !.objects = {"readonly_query_user granted"}]
R0018 ==
  [Blank EXCEPT !.adds = {<<"enterprise_sync_runs", "post_processing_status">>}]
R0019 ==
  [Blank EXCEPT !.creates = <<Table("enterprise_sync_log_entries",
        {"run_id", "seq", "timestamp", "level", "message", "entity_type", "org", "details"},
        {}, {<<"run_id", "enterprise_sync_runs", "cascade">>})>>]
R0020 ==
  [Blank EXCEPT !.adds = 
      {<<"enterprise_orgs", "two_factor_required">>,
       <<"enterprise_orgs", "default_repo_permission">>,
       <<"enterprise_orgs", "members_can_fork_private_repos">>,
       <<"enterprise_orgs", "members_can_create_public_repos">>,
       <<"enterprise_orgs", "ip_allow_list_enabled">>,
       <<"enterprise_orgs", "ip_allow_list_for_installed_apps_enabled">>},
    !.allows = [logic_type |-> FirstLogic \cup {"cross_namespace_sequence", "posture"}],
    !.back = [logic_type |-> FirstLogic \cup {"cross_namespace_sequence"}]]
Posture0021 ==
  Rules("posture",
    {"posture-ip-allowlist-disabled", "posture-2fa-not-required",
     "posture-default-repo-permission-write", "posture-private-fork-allowed",
     "posture-public-repo-creation-allowed", "posture-no-branch-protection",
     "posture-branch-no-review-required", "posture-branch-admins-not-enforced",
     "posture-public-repo-in-enterprise"})
R0021 ==
  [Blank EXCEPT !.rules = Posture0021]
R0022 ==
  [Blank EXCEPT !.creates = <<Table("org_outside_collaborators",
        {"enterprise_slug", "org", "login", "github_id", "avatar_url", "site_admin",
         "synced_at"}, {{"enterprise_slug", "login", "org"}}, {}),
      Table("org_secret_scanning_alert_summaries",
        {"enterprise_slug", "org", "open_count", "resolved_count", "total_count",
         "synced_at"}, {{"enterprise_slug", "org"}}, {}),
      Table("org_dependabot_alert_summaries",
        {"enterprise_slug", "org", "open_count", "fixed_count", "dismissed_count",
         "total_count", "critical_count", "high_count", "medium_count", "low_count",
         "synced_at"}, {{"enterprise_slug", "org"}}, {}),
      Table("enterprise_license_consumption",
        {"enterprise_slug", "total_seats_purchased", "total_seats_consumed", "seats",
         "synced_at"}, {{"enterprise_slug"}}, {})>>]
FixedRetention ==
  {"fixed retention of events", "fixed retention of audit_trail",
   "fixed retention of system_health_events"}
R0023 ==
  [Blank EXCEPT !.objects = FixedRetention]
R0024 ==
  [Blank EXCEPT !.creates = <<Table("query_templates",
        {"name", "description", "sql", "created_by", "org_slug", "created_at", "updated_at"},
        {}, {})>>]
R0025 ==
  [Blank EXCEPT !.creates = <<Table("org_code_scanning_alert_summaries",
        {"enterprise_slug", "org", "open_count", "fixed_count", "dismissed_count",
         "total_count", "error_count", "warning_count", "note_count", "synced_at"},
        {{"enterprise_slug", "org"}}, {}),
      Table("org_actions_workflow_summaries",
        {"enterprise_slug", "org", "total_workflows", "active_workflows", "total_runs",
         "successful_runs", "failed_runs", "cancelled_runs", "synced_at"},
        {{"enterprise_slug", "org"}}, {})>>,
    !.adds = {<<"org_members", "mfa_enabled">>}]
SyncSources == StoreSources \cup {"github_enterprise_sync", "github_api_sync"}
R0026 ==
  [Blank EXCEPT !.allows = [ingestion_source |-> SyncSources],
    !.back = [ingestion_source |-> StoreSources]]
R0027 ==
  [Blank EXCEPT !.adds = 
      {<<"notification_configs", "rule_categories">>,
       <<"notification_configs", "org_filter">>, <<"notification_configs", "is_catch_all">>,
       <<"notification_configs", "digest_enabled">>,
       <<"notification_configs", "digest_cron">>}]
R0028 ==
  [Blank EXCEPT !.creates = <<Table("report_schedules",
        {"report_type", "org", "cron_expression", "export_format", "recipients", "enabled",
         "created_by", "last_run_at", "last_status", "created_at", "updated_at"}, {}, {})>>]
R0029 ==
  [Blank EXCEPT !.creates = <<Table("threat_intel_indicators",
        {"indicator_type", "value", "source", "confidence", "active", "added_at",
         "added_by", "expires_at", "notes", "feed_id", "metadata_json"}, {}, {}),
      Table("threat_intel_feeds",
        {"name", "url", "feed_type", "enabled", "refresh_interval_minutes",
         "last_fetched_at", "last_fetch_status", "last_indicator_count", "created_by",
         "created_at", "updated_at"}, {}, {})>>,
    !.newKeys = {<<"threat_intel_indicators", {"indicator_type", "value"}>>,
      <<"behavioral_baselines", {"baseline_type", "scope_key", "metric_name"}>>}]
R0030 ==
  [Blank EXCEPT !.creates = <<Table("secret_scanning_alerts",
        {"org_slug", "alert_number", "repo_full_name", "secret_type", "secret_type_display",
         "file_path", "commit_sha", "state", "resolution", "push_protection_bypassed",
         "push_protection_bypassed_by", "created_at", "resolved_at", "synced_at"}, {}, {}),
      Table("code_scanning_alerts",
        {"org_slug", "alert_number", "repo_full_name", "rule_id", "rule_description",
         "severity", "security_severity", "cwe_ids", "tool_name", "file_path", "start_line",
         "state", "dismissed_by", "dismissed_reason", "dismissed_at", "created_at",
         "fixed_at", "synced_at"}, {}, {}),
      Table("dependabot_alerts",
        {"org_slug", "alert_number", "repo_full_name", "package_name", "package_ecosystem",
         "severity", "cvss_score", "cve_id", "cwe_ids", "vulnerable_version_range",
         "patched_version", "state", "dismissed_by", "dismissed_reason", "created_at",
         "fixed_at", "auto_dismissed_at", "synced_at"}, {}, {})>>,
    !.newKeys = {<<"secret_scanning_alerts", {"org_slug", "repo_full_name", "alert_number"}>>,
      <<"code_scanning_alerts", {"org_slug", "repo_full_name", "alert_number"}>>,
      <<"dependabot_alerts", {"org_slug", "repo_full_name", "alert_number"}>>}]
R0031 ==
  [Blank EXCEPT !.creates = <<Table("siem_export_configs",
        {"export_type", "display_name", "syslog_host", "syslog_port", "syslog_protocol",
         "syslog_format", "splunk_hec_url", "splunk_hec_token_env_var", "splunk_sourcetype",
         "splunk_index", "webhook_url", "webhook_secret_env_var", "webhook_headers",
         "enabled", "export_events", "export_detections", "created_by", "created_at",
         "updated_at"}, {}, {})>>]
R0032 ==
  [Blank EXCEPT !.creates = <<Table("playbook_templates",
        {"name", "slug", "description", "detection_categories", "steps", "created_by",
         "created_at", "updated_at"}, {{"slug"}}, {}),
      Table("playbook_executions",
        {"template_id", "detection_id", "status", "step_results", "started_by",
         "started_at", "completed_at"},
        {},
        {<<"template_id", "playbook_templates", "cascade">>, <<"detection_id", "detections", "cascade">>}),
      Table("copilot_policies",
        {"name", "description", "policy_type", "config", "enabled", "created_by",
         "created_at", "updated_at"}, {}, {}),
      Table("copilot_policy_violations",
        {"policy_id", "actor_login", "violation_details", "detection_id", "created_at"},
        {}, {<<"policy_id", "copilot_policies", "cascade">>}),
      Table("workflow_findings",
        {"repo", "org", "workflow_path", "rule_id", "severity", "title", "description",
         "details", "suggested_fix", "scanned_at"}, {}, {})>>,
    !.adds = {<<"events", "custom_enrichments">>}]
R0033 ==
  [Blank EXCEPT !.allows = [ingestion_source |-> SyncSources \cup {"hec", "webhook"}],
    !.back = [ingestion_source |-> SyncSources]]
R0034 ==
  [Blank EXCEPT !.objects = 
      {"idx_events_workflow_conclusion", "idx_events_workflow_run_conclusion",
       "idx_events_pr_lifecycle", "idx_events_push_ref"}]
People0035 ==
  <<Table("org_team_repos",
      {"created_at", "org", "team_slug", "repo_name", "repo_id", "permission", "synced_at"},
      {{"org", "repo_name", "team_slug"}}, {}),
    Table("repo_collaborators",
      {"created_at", "org", "repo_name", "github_login", "github_id", "permission",
       "synced_at"}, {{"github_login", "org", "repo_name"}}, {}),
    Table("org_credential_authorizations",
      {"created_at", "org", "github_login", "credential_id", "credential_type",
       "token_last_eight", "credential_authorized_at", "credential_accessed_at", "scopes",
       "synced_at"}, {{"credential_id", "org"}}, {})>>
Settings0035 ==
  <<Table("org_webhooks",
      {"created_at", "org", "hook_id", "name", "active", "config_url",
       "config_content_type", "config_insecure_ssl", "events", "synced_at"},
      {{"hook_id", "org"}}, {}),
    Table("repo_webhooks",
      {"created_at", "org", "repo_name", "hook_id", "name", "active", "config_url",
       "config_content_type", "config_insecure_ssl", "events", "synced_at"},
      {{"hook_id", "org", "repo_name"}}, {}),
    Table("org_actions_permissions",
      {"created_at", "org", "enabled_repositories", "allowed_actions",
       "github_owned_allowed", "verified_allowed", "patterns_allowed", "synced_at"},
      {{"org"}}, {}),
    Table("org_self_hosted_runners",
      {"created_at", "org", "runner_id", "name", "os", "status", "busy", "labels",
       "runner_group_id", "runner_group_name", "synced_at"}, {{"org", "runner_id"}}, {}),
    Table("repo_deploy_keys",
      {"created_at", "org", "repo_name", "key_id", "title", "read_only", "key_added_at",
       "synced_at"}, {{"key_id", "org", "repo_name"}}, {})>>
R0035 == [Blank EXCEPT !.creates = People0035 \o Settings0035]
R0036 ==
  [Blank EXCEPT !.objects = 
      {"idx_events_pr_merged", "idx_events_deploy_status_sha",
       "idx_events_workflow_success_sha", "idx_events_issue_opened"}]
R0037 ==
  [Blank EXCEPT !.creates = <<Table("copilot_daily_metrics",
        {"date", "org_slug", "metric_type", "language", "editor", "model", "active_users",
         "engaged_users", "total_suggestions", "total_acceptances", "total_lines_suggested",
         "total_lines_accepted", "acceptance_rate", "synced_at"},
        {{"date", "editor", "language", "metric_type", "model", "org_slug"}}, {}),
      Table("copilot_seat_snapshots",
        {"snapshot_date", "org_slug", "github_login", "plan_type", "last_activity_at",
         "last_activity_editor", "created_at", "pending_cancellation_date"},
        {{"github_login", "org_slug", "snapshot_date"}}, {})>>,
    !.adds = {<<"copilot_policies", "severity">>}]
R0038 ==
  [Blank EXCEPT !.adds = {<<"enterprise_sync_runs", "expected_entity_count">>}]
HeirOf0039 ==
  [sys_admin |-> "super_admin", report_admin |-> "compliance_officer",
   rule_author |-> "security_engineer", analyst |-> "security_analyst"]
R0039 ==
  [Blank EXCEPT !.adds = 
      {<<"rbac_roles", "is_system">>, <<"rbac_roles", "is_custom">>,
       <<"rbac_roles", "updated_at">>},
    !.unchecked = {"role_name"},
    !.back = [role_name |-> DOMAIN HeirOf0039],
    !.heirOf = HeirOf0039,
    !.roles = {"super_admin", "security_analyst", "security_engineer", "compliance_officer",
                "engineering_leader", "copilot_admin", "viewer"}]
R0040 ==
  [Blank EXCEPT !.creates = <<Table("auth_method_configs",
        {"method_name", "display_name", "enabled", "config_json", "created_at",
         "updated_at"}, {{"method_name"}}, {}),
      Table("session_policy_settings",
        {"policy_key", "policy_value", "description", "created_at", "updated_at"},
        {{"policy_key"}}, {})>>]
R0041 ==
  [Blank EXCEPT !.creates = <<Table("retention_policies",
        {"data_type", "category", "display_name", "description", "retention_days",
         "minimum_days", "is_system", "updated_by", "updated_at", "created_at"},
        {{"data_type"}}, {})>>]
R0042 ==
  [Blank EXCEPT !.creates = <<Table("teams",
        {"name", "slug", "description", "github_org", "github_team_slug", "auto_sync",
         "created_by", "created_at", "updated_at"}, {{"name"}, {"slug"}}, {}),
      Table("team_memberships",
        {"team_id", "user_login", "added_by", "created_at"},
        {{"team_id", "user_login"}}, {<<"team_id", "teams", "cascade">>}),
      Table("team_role_assignments",
        {"team_id", "role_id", "org_slug", "repo_slugs", "assigned_by", "created_at"},
        {{"role_id", "team_id"}},
        {<<"team_id", "teams", "cascade">>, <<"role_id", "rbac_roles", "cascade">>})>>]
Ghas0043 ==
  Rules("pattern",
    {"ghas-code-scanning-disabled", "ghas-dependabot-alerts-disabled",
     "ghas-dependabot-updates-disabled", "ghas-secret-scanning-disabled",
     "ghas-vulnerability-alerts-disabled", "ghas-advanced-security-disabled",
     "ghas-push-protection-disabled"})
R0043 ==
  [Blank EXCEPT !.rules = Ghas0043, !.overwrites = TRUE]
R0044 ==
  [Blank EXCEPT !.objects = 
      {"ix_events_org_created_at", "ix_events_org_action", "ix_events_org_actor",
       "ix_events_org_repo"}]
R0045 ==
  [Blank EXCEPT !.adds = {<<"app_settings", "keyvault_ref">>}]
R0046 ==
  [Blank EXCEPT !.gone = FixedRetention,
    !.objects = {"retention of events by policy", "retention of audit_trail by policy",
                 "retention of system_health_events by policy"}]
R0047 ==
  [Blank EXCEPT !.objects = 
      {"idx_events_org_action", "idx_events_org_actor", "idx_events_org_namespace"}]
R0048 ==
  [Blank EXCEPT !.creates = <<Table("workflow_scan_activities",
        {"trigger_event_ids", "org", "repo", "workflow_path", "started_at", "completed_at",
         "status", "checks_performed", "findings_count", "data_sources", "duration_ms",
         "error_message"}, {}, {})>>]
R0049 ==
  [Blank EXCEPT !.creates = <<Table("custom_reports",
        {"name", "description", "owner_login", "data_sources", "columns", "filters",
         "grouping", "visualization", "is_shared", "shared_with", "last_run_at",
         "created_at", "updated_at"}, {}, {})>>]
R0050 ==
  [Blank EXCEPT !.adds = {<<"rule_definitions", "mode">>, <<"detections", "is_dry_run">>},
    !.objects = 
      {"idx_detections_is_dry_run"}]
R0051 ==
  [Blank EXCEPT !.creates = <<Table("correlation_chains",
        {"title", "status", "severity", "created_at", "updated_at", "resolved_at",
         "assignee", "notes"}, {}, {}),
      Keyless("chain_memberships",
        {"chain_id", "detection_id", "correlation_type", "confidence", "added_at"},
        {},
        {<<"chain_id", "correlation_chains", "cascade">>, <<"detection_id", "detections", "cascade">>})>>,
    !.adds = {<<"detections", "chain_id">>},
    !.newRefs = 
     {<<"detections", "chain_id", "correlation_chains", "null">>},
    !.objects = 
      {"idx_detections_chain_id"}]
R0052 ==
  [Blank EXCEPT !.adds = 
      {<<"secret_scanning_alerts", "validity">>,
       <<"secret_scanning_alerts", "locations_count">>,
       <<"secret_scanning_alerts", "resolved_by">>,
       <<"secret_scanning_alerts", "updated_at">>},
    !.objects = 
      {"idx_secret_scanning_alert_validity"}]
R0053 ==
  [Blank EXCEPT !.creates = <<Table("saved_queries",
        {"name", "description", "sql_text", "owner_login", "is_shared", "shared_with",
         "tags", "schedule_cron", "schedule_enabled", "last_run_at", "created_at",
         "updated_at"}, {}, {})>>,
    !.objects = {"saved_queries readable by readonly_query_user"}]
R0054 ==
  [Blank EXCEPT !.creates = <<Table("notifications",
        {"user_id", "title", "message", "severity", "read", "source", "link", "created_at"},
        {}, {}),
      Table("notification_preferences",
        {"user_id", "in_app_enabled", "email_enabled", "slack_enabled", "severity_filter",
         "detection_alerts", "sync_alerts", "system_alerts", "updated_at"},
        {{"user_id"}}, {})>>]
Projects0055 ==
  Rules("pattern",
    {"project-visibility-public", "project-collaborator-added-external",
     "project-collaborator-role-escalated", "project-base-role-elevated", "project-deleted",
     "project-field-deleted"})
R0055 ==
  [Blank EXCEPT !.rules = Projects0055, !.overwrites = TRUE]
R0056 ==
  [Blank EXCEPT !.adds = {<<"threat_intel_feeds", "is_default">>},
    !.newKeys = {<<"threat_intel_feeds", {"url"}>>},
    !.overwrites = TRUE,
    !.feeds = {"urlhaus", "feodotracker", "otx", "cisa_kev", "phishtank"}]
R0057 ==
  [Blank EXCEPT !.creates = <<Table("user_dashboard_configs",
        {"user_id", "layout", "persona", "created_at", "updated_at"}, {}, {})>>,
    !.newKeys = {<<"user_dashboard_configs", {"user_id"}>>}]
R0058 ==
  [Blank EXCEPT !.creates = <<Table("packages",
        {"org", "repo", "name", "package_type", "visibility", "owner", "versions_count",
         "latest_version", "last_published_at", "created_at", "updated_at", "is_stale",
         "published_outside_actions", "published_by_external"}, {}, {}),
      Table("package_alerts",
        {"package_id", "alert_type", "severity", "message", "detected_at", "resolved_at",
         "status"}, {}, {<<"package_id", "packages", "cascade">>})>>,
    !.newKeys = {<<"packages", {"org", "name"}>>}]
R0059 ==
  [Blank EXCEPT !.creates = <<Table("user_classifications",
        {"user_login", "org", "persona", "confidence_score", "event_count", "surfaces",
         "analysis_window_days", "classified_at", "created_at", "updated_at"}, {}, {})>>,
    !.newKeys = {<<"user_classifications", {"user_login", "org"}>>}]
R0060 ==
  [Blank EXCEPT !.overwrites = TRUE,
    !.playbooks =
      {"account-compromise-response", "leaked-secret-response",
       "privilege-escalation-response", "cicd-threat-response",
       "runaway-workflow-queue-response", "defense-evasion-response",
       "access-control-violation-response", "policy-violation-response",
       "workflow-file-modification-response", "suspicious-runner-registration-response",
       "actions-secret-access-spike-response", "ghas-feature-disabled-response",
       "data-exfiltration-response", "branch-protection-tampering-response",
       "impossible-travel-anomalous-login-response",
       "supply-chain-dependency-attack-response", "cross-org-threat-response"}]
Queues0061 ==
  Rules("statistical", {"runaway-workflow-queue-anomaly"})
  \cup Rules("threshold", {"runaway-workflow-queue-actor-spike"})
R0061 ==
  [Blank EXCEPT !.rules = Queues0061, !.overwrites = TRUE]
R0062 ==
  [Blank EXCEPT !.creates = <<Table("delivery_timelines",
        {"pr_number", "repo", "org", "issue_numbers", "backlog_hours", "dev_hours",
         "review_hours", "deploy_hours", "total_hours", "merge_commit_sha", "pr_merged_at",
         "ci_completed_at", "created_at"}, {}, {})>>,
    !.newKeys = {<<"delivery_timelines", {"org", "repo", "pr_number"}>>}]
R0063 ==
  [Blank EXCEPT !.renames = {s[1] : s \in Posture0021}]
R0064 ==
  [Blank EXCEPT !.creates = <<Table("copilot_usage_reports",
        {"report_date", "org_slug", "github_login", "total_credits_consumed",
         "completions_credits", "chat_credits", "pr_credits", "other_credits",
         "budget_amount", "budget_consumed", "is_blocked", "synced_at"},
        {{"github_login", "org_slug", "report_date"}}, {})>>]
R0065 ==
  [Blank EXCEPT !.objects = {"cagg_events_daily", "cagg_events_daily_repo", "cagg_events_daily_geo"}]
R0066 ==
  [Blank EXCEPT !.creates = <<Table("threat_intel_campaigns",
        {"name", "slug", "description", "first_seen_at", "last_updated", "severity",
         "status", "source_feed_id", "metadata_json", "indicator_count"},
        {{"name"}, {"slug"}}, {})>>,
    !.adds = 
      {<<"threat_intel_indicators", "campaign_id">>, <<"rule_definitions", "source">>,
       <<"rule_definitions", "campaign_id">>, <<"rule_definitions", "expires_at">>,
       <<"detections", "campaign_id">>, <<"threat_intel_feeds", "parser_type">>,
       <<"threat_intel_feeds", "parser_config">>,
       <<"threat_intel_feeds", "auto_rule_generation">>,
       <<"threat_intel_feeds", "default_campaign_id">>},
    !.newRefs = 
     {<<"threat_intel_campaigns", "source_feed_id", "threat_intel_feeds", "null">>,
      <<"threat_intel_indicators", "campaign_id", "threat_intel_campaigns", "null">>,
      <<"rule_definitions", "campaign_id", "threat_intel_campaigns", "null">>,
      <<"detections", "campaign_id", "threat_intel_campaigns", "null">>,
      <<"threat_intel_feeds", "default_campaign_id", "threat_intel_campaigns", "null">>},
    !.objects = 
      {"idx_indicators_campaign_active", "idx_rules_campaign_enabled",
       "idx_detections_campaign_triggered"}]
R0067 ==
  [Blank EXCEPT !.creates = <<Table("ghas_active_committers",
        {"org_slug", "total_active_committers", "maximum_active_committers",
         "purchased_committers", "synced_at"}, {{"org_slug"}}, {})>>]
R0068 ==
  [Blank EXCEPT !.creates = <<Table("automation_targets",
        {"name", "target_type", "webhook_url", "webhook_secret", "webhook_headers",
         "dispatch_repo", "dispatch_event_type", "dispatch_token_env_var", "rule_ids",
         "rule_categories", "severity_filter", "org_filter", "is_catch_all",
         "rate_limit_per_minute", "enabled", "max_retries", "created_by", "created_at",
         "updated_at"}, {}, {}),
      Table("automation_deliveries",
        {"target_id", "detection_id", "status", "attempts", "last_attempt_at",
         "next_retry_at", "response_code", "response_body", "error_message", "payload_hash",
         "is_dry_run", "created_at"},
        {},
        {<<"target_id", "automation_targets", "cascade">>, <<"detection_id", "detections", "cascade">>})>>]
R0070 ==
  [Blank EXCEPT !.creates = <<Table("utilization_facts",
        {"org_slug", "actor_login", "feature_area", "metric_date", "actions_minutes",
         "actions_runs", "copilot_suggestions", "copilot_acceptances", "copilot_credits",
         "ghas_alerts_dismissed", "git_clones", "git_pushes", "packages_published",
         "storage_bytes", "created_at"},
        {{"actor_login", "feature_area", "metric_date", "org_slug"}}, {})>>,
    !.adds = 
      {<<"events", "activity_category">>, <<"behavioral_baselines", "p25">>,
       <<"behavioral_baselines", "p75">>},
    !.objects = 
      {"idx_events_activity_category"}]
Personas0071 ==
  Rules("classification",
    {"persona-bot", "persona-viewer-zero", "persona-developer", "persona-code-reviewer",
     "persona-product-manager", "persona-admin", "persona-collaborator"})
Actions0071 ==
  Rules("statistical",
    {"actions-minutes-anomaly", "ghas-committer-spike", "copilot-credit-anomaly"})
  \cup Rules("threshold",
    {"runner-registration-spike", "actions-cache-abuse", "workflow-concurrency-flood",
     "ghas-mass-alert-dismiss", "ghas-mass-disable", "push-protection-bypass-freq"})
Usage0071 ==
  Rules("threshold",
    {"copilot-premium-budget-burn", "copilot-mass-seat-change", "mass-repo-access",
     "rate-limit-exhaustion", "package-publish-flood", "package-mass-delete"})
  \cup Rules("statistical",
    {"copilot-inactive-seats", "git-clone-anomaly", "storage-growth-anomaly"})
  \cup Rules("utilization_composite", {"cross-feature-risk-escalation"})
  \cup Rules("sequence", {"api-scraping-pattern"})
Logic0020 == FirstLogic \cup {"cross_namespace_sequence", "posture"}
R0071Narrow ==
  [Blank EXCEPT !.rules = Personas0071 \cup Actions0071 \cup Usage0071,
    !.source = "system"]
R0071Overwriting ==
  [Blank EXCEPT !.rules = Personas0071 \cup Actions0071 \cup Usage0071,
    !.source = "system", !.overwrites = TRUE,
    !.allows = [logic_type |-> Logic0020 \cup {"classification", "utilization_composite"}],
    !.back = [logic_type |-> Logic0020]]
R0071 ==
  [Blank EXCEPT !.rules = Personas0071 \cup Actions0071 \cup Usage0071,
    !.source = "system",
    !.allows = [logic_type |-> Logic0020 \cup {"classification", "utilization_composite"}],
    !.back = [logic_type |-> Logic0020]]
R0072Absent == Blank
R0072 ==
  [Blank EXCEPT !.newKeys = {<<"workflow_findings", {"repo", "workflow_path", "rule_id"}>>}]
R0073 ==
  [Blank EXCEPT !.creates = <<Table("copilot_sessions",
        {"created_at", "session_id", "enterprise", "org", "actor", "actor_id", "editor",
         "editor_version", "copilot_version", "model", "language", "repository",
         "turn_count", "tool_call_count", "total_tokens_in", "total_tokens_out",
         "duration_seconds", "started_at", "ended_at", "ingested_at", "data",
         "ingestion_source"}, {}, {}),
      Table("copilot_session_turns",
        {"session_id", "turn_index", "created_at", "prompt_text", "prompt_tokens",
         "response_text", "response_tokens", "model", "finish_reason", "latency_ms",
         "tool_calls", "references", "annotations", "org"}, {}, {}),
      Table("copilot_session_tool_calls",
        {"session_id", "turn_index", "tool_name", "tool_input", "tool_output_summary",
         "duration_ms", "success", "created_at", "org"}, {}, {})>>,
    !.newKeys = {<<"copilot_sessions", {"session_id", "created_at"}>>}]
-----------------------------------------------------------------------------
\* The one line of revisions from the first to the head.
Revisions ==
  <<R0001, R0002, R0003, R0004, R0005, R0006, R0007, R0008, R0009, R0010, R0011, R0012,
    R0013, R0014, R0015, R0016, R0017, R0018, R0019, R0020, R0021, R0022, R0023,
    R0024, R0025, R0026, R0027, R0028, R0029, R0030, R0031, R0032, R0033, R0034,
    R0035, R0036, R0037, R0038, R0039, R0040, R0041, R0042, R0043, R0044, R0045,
    R0046, R0047, R0048, R0049, R0050, R0051, R0052, R0053, R0054, R0055, R0056,
    R0057, R0058, R0059, R0060, R0061, R0062, R0063, R0064, R0065, R0066, R0067,
    R0068, R0070, R0071, R0072, R0073>>
HeadRevision == Len(Revisions)
=============================================================================
