------------------------------- MODULE Models -------------------------------
(***************************************************************************)
(* app/models: the tables, columns, unique keys and foreign keys that the  *)
(* SQLAlchemy models declare.  The application reads and writes rows       *)
(* through them; the migrations, not they, create the tables (env.py sets  *)
(* no target_metadata).  One definition for the models of a file, or of a  *)
(* part of it; types, defaults and plain indexes are left out.             *)
(***************************************************************************)
EXTENDS Migrations
-----------------------------------------------------------------------------
AppSettingsModels ==
  {Table("app_settings",
      {"key", "encrypted_value", "category", "sensitivity", "description", "updated_by",
       "created_at", "updated_at", "keyvault_ref"}, {{"key"}}, {}),
    Table("app_settings_audit",
      {"setting_key", "action", "changed_by", "old_value_masked", "new_value_masked",
       "created_at"}, {}, {}),
    Table("setup_state",
      {"is_complete", "completed_by", "completed_at", "setup_token_hash", "created_at"},
      {}, {})}
AuditEventModels ==
  {Table("events",
      {"created_at", "document_id", "ingested_at", "action", "namespace", "actor",
       "actor_id", "actor_is_bot", "org", "org_id", "repo", "repo_id", "business",
       "business_id", "source_ip", "user_agent", "geo_country_code", "geo_city",
       "geo_latitude", "geo_longitude", "geo_is_proxy", "data", "custom_enrichments",
       "ingestion_source", "source_file_path", "activity_category"}, {}, {}),
    Keyless("event_dedup",
      {"document_id", "event_id", "created_at", "ingested_at"}, {}, {}),
    Table("event_raw_payloads",
      {"document_id", "source_file", "raw_json", "event_id", "ingested_at"},
      {{"document_id"}}, {})}
AuditTrailModels ==
  {Table("audit_trail",
      {"timestamp", "user_login", "user_github_id", "ip_address", "user_agent",
       "action_type", "resource_type", "resource_id", "parameters", "outcome",
       "error_detail"}, {}, {})}
AuthMethodModels ==
  {Table("auth_method_configs",
      {"method_name", "display_name", "enabled", "config_json", "created_at", "updated_at"},
      {{"method_name"}}, {}),
    Table("session_policy_settings",
      {"policy_key", "policy_value", "description", "created_at", "updated_at"},
      {{"policy_key"}}, {})}
AutomationModels ==
  {Table("automation_targets",
      {"name", "target_type", "webhook_url", "webhook_secret", "webhook_headers",
       "dispatch_repo", "dispatch_event_type", "dispatch_token_env_var", "rule_ids",
       "rule_categories", "severity_filter", "org_filter", "is_catch_all",
       "rate_limit_per_minute", "enabled", "max_retries", "created_by", "created_at",
       "updated_at"}, {}, {}),
    Table("automation_deliveries",
      {"target_id", "detection_id", "status", "attempts", "last_attempt_at",
       "next_retry_at", "response_code", "response_body", "error_message", "payload_hash",
       "is_dry_run", "created_at"},
      {},
      {<<"target_id", "automation_targets", "cascade">>, <<"detection_id", "detections", "cascade">>})}
CopilotMetricsModels ==
  {Table("copilot_daily_metrics",
      {"date", "org_slug", "metric_type", "language", "editor", "model", "active_users",
       "engaged_users", "total_suggestions", "total_acceptances", "total_lines_suggested",
       "total_lines_accepted", "acceptance_rate", "synced_at"},
      {{"date", "editor", "language", "metric_type", "model", "org_slug"}}, {}),
    Table("copilot_seat_snapshots",
      {"snapshot_date", "org_slug", "github_login", "plan_type", "last_activity_at",
       "last_activity_editor", "created_at", "pending_cancellation_date"},
      {{"github_login", "org_slug", "snapshot_date"}}, {})}
CopilotPolicyModels ==
  {Table("copilot_policies",
      {"name", "description", "policy_type", "config", "enabled", "severity", "created_by",
       "created_at", "updated_at"}, {}, {}),
    Table("copilot_policy_violations",
      {"policy_id", "actor_login", "violation_details", "detection_id", "created_at"},
      {}, {<<"policy_id", "copilot_policies", "cascade">>})}
CopilotSessionModels ==
  {Table("copilot_sessions",
      {"created_at", "session_id", "enterprise", "org", "actor", "actor_id", "editor",
       "editor_version", "copilot_version", "model", "language", "repository", "turn_count",
       "tool_call_count", "total_tokens_in", "total_tokens_out", "duration_seconds",
       "started_at", "ended_at", "ingested_at", "data", "ingestion_source"},
      {{"created_at", "session_id"}}, {}),
    Table("copilot_session_turns",
      {"session_id", "turn_index", "created_at", "prompt_text", "prompt_tokens",
       "response_text", "response_tokens", "model", "finish_reason", "latency_ms",
       "tool_calls", "references", "annotations", "org"}, {}, {}),
    Table("copilot_session_tool_calls",
      {"session_id", "turn_index", "tool_name", "tool_input", "tool_output_summary",
       "duration_ms", "success", "created_at", "org"}, {}, {})}
CopilotUsageModels ==
  {Table("copilot_usage_reports",
      {"report_date", "org_slug", "github_login", "total_credits_consumed",
       "completions_credits", "chat_credits", "pr_credits", "other_credits",
       "budget_amount", "budget_consumed", "is_blocked", "synced_at"},
      {{"github_login", "org_slug", "report_date"}}, {})}
CorrelationModels ==
  {Table("correlation_chains",
      {"title", "status", "severity", "created_at", "updated_at", "resolved_at", "assignee",
       "notes"}, {}, {}),
    Keyless("chain_memberships",
      {"chain_id", "detection_id", "correlation_type", "confidence", "added_at"},
      {},
      {<<"chain_id", "correlation_chains", "cascade">>, <<"detection_id", "detections", "cascade">>})}
CustomReportModels ==
  {Table("custom_reports",
      {"name", "description", "owner_login", "data_sources", "columns", "filters",
       "grouping", "visualization", "is_shared", "shared_with", "last_run_at", "created_at",
       "updated_at"}, {}, {})}
DashboardConfigModels ==
  {Table("user_dashboard_configs",
      {"user_id", "layout", "persona", "created_at", "updated_at"}, {{"user_id"}}, {})}
DeliveryTimelineModels ==
  {Table("delivery_timelines",
      {"pr_number", "repo", "org", "issue_numbers", "backlog_hours", "dev_hours",
       "review_hours", "deploy_hours", "total_hours", "merge_commit_sha", "pr_merged_at",
       "ci_completed_at", "created_at"}, {}, {})}
RuleModels ==
  {Table("rule_definitions",
      {"name", "slug", "description", "category", "default_severity", "default_confidence",
       "logic_type", "logic_config", "enabled", "status", "mode", "version",
       "git_commit_sha", "created_by", "updated_by", "created_at", "updated_at", "source",
       "campaign_id", "expires_at"},
      {{"slug"}}, {<<"campaign_id", "threat_intel_campaigns", "null">>}),
    Table("rule_versions",
      {"rule_id", "version", "logic_config", "change_summary", "changed_by",
       "git_commit_sha", "created_at"}, {}, {<<"rule_id", "rule_definitions", "cascade">>}),
    Table("detection_suppressions",
      {"rule_id", "suppress_actor", "suppress_org", "suppress_repo", "reason", "created_by",
       "expires_at", "active", "created_at", "updated_at"},
      {}, {<<"rule_id", "rule_definitions", "">>})}
DetectionModels ==
  {Table("detections",
      {"rule_id", "rule_version", "triggered_at", "window_start", "window_end", "severity",
       "confidence", "confidence_score", "status", "is_dry_run", "assigned_to", "title",
       "description", "actor", "org", "repo", "source_ip", "event_ids", "context_data",
       "resolved_at", "resolved_by", "resolution_note", "suppressed_by", "created_at",
       "updated_at", "campaign_id", "chain_id"},
      {},
      {<<"rule_id", "rule_definitions", "">>, <<"suppressed_by", "detection_suppressions", "">>, <<"campaign_id", "threat_intel_campaigns", "null">>, <<"chain_id", "correlation_chains", "null">>}),
    Table("severity_configs",
      {"action_pattern", "default_severity", "custom_severity", "notes", "updated_by",
       "updated_at"}, {{"action_pattern"}}, {}),
    Table("behavioral_baselines",
      {"baseline_type", "scope_key", "metric_name", "window_start", "window_end", "mean",
       "stddev", "p25", "p75", "p95", "p99", "sample_count", "computed_at",
       "push_bypass_hourly_mean", "push_bypass_hourly_stddev", "alert_dismiss_daily_mean",
       "alert_dismiss_daily_stddev", "admin_action_daily_mean", "admin_action_daily_stddev"},
      {}, {})}
ExternalCollaboratorModels ==
  {Table("external_collaborators",
      {"org", "repo", "github_login", "github_id", "role", "granted_at", "granted_by",
       "is_active", "removed_at", "removed_by", "last_event_at", "source_event_id",
       "created_at", "updated_at", "data_source", "last_synced_at", "sync_run_id"},
      {{"github_login", "org", "repo"}}, {})}
SyncRunModels ==
  {Table("github_app_configs",
      {"created_at", "updated_at", "app_id", "installation_id", "enterprise_slug",
       "org_login", "enabled"}, {{"app_id", "installation_id"}}, {}),
    Table("enterprise_sync_runs",
      {"created_at", "status", "trigger_type", "triggered_by", "scope", "started_at",
       "completed_at", "error_message", "entity_counts", "post_processing_status",
       "expected_entity_count"}, {}, {}),
    Table("enterprise_sync_entity_cursors",
      {"created_at", "run_id", "entity_type", "org", "last_cursor", "items_synced",
       "status"},
      {{"entity_type", "org", "run_id"}},
      {<<"run_id", "enterprise_sync_runs", "cascade">>})}
MemberModels ==
  {Table("enterprise_orgs",
      {"created_at", "enterprise_slug", "org_login", "org_id", "visibility", "plan",
       "member_count", "two_factor_required", "default_repo_permission",
       "members_can_fork_private_repos", "members_can_create_public_repos",
       "ip_allow_list_enabled", "ip_allow_list_for_installed_apps_enabled", "synced_at"},
      {{"enterprise_slug", "org_login"}}, {}),
    Table("enterprise_members",
      {"created_at", "enterprise_slug", "github_login", "github_id", "role", "synced_at"},
      {{"enterprise_slug", "github_login"}}, {}),
    Table("org_members",
      {"created_at", "org", "github_login", "github_id", "role", "mfa_enabled", "synced_at"},
      {{"github_login", "org"}}, {}),
    Table("org_teams",
      {"created_at", "org", "team_slug", "team_id", "name", "privacy", "parent_team_slug",
       "synced_at"}, {{"org", "team_slug"}}, {})}
RepositoryModels ==
  {Table("org_team_members",
      {"created_at", "org", "team_slug", "github_login", "github_id", "role", "synced_at"},
      {{"github_login", "org", "team_slug"}}, {}),
    Table("repositories",
      {"created_at", "org", "repo_name", "repo_id", "visibility", "default_branch",
       "archived", "fork", "pushed_at", "synced_at"}, {{"org", "repo_name"}}, {}),
    Table("repo_branch_protections",
      {"created_at", "org", "repo_name", "branch", "required_reviews",
       "required_status_checks", "enforce_admins", "synced_at"},
      {{"branch", "org", "repo_name"}}, {}),
    Table("github_app_installations",
      {"created_at", "app_id", "installation_id", "target_type", "target_login",
       "permissions", "synced_at"}, {{"app_id", "installation_id"}}, {})}
SummaryModels ==
  {Table("enterprise_sync_log_entries",
      {"run_id", "seq", "timestamp", "level", "message", "entity_type", "org", "details"},
      {}, {<<"run_id", "enterprise_sync_runs", "cascade">>}),
    Table("org_outside_collaborators",
      {"enterprise_slug", "org", "login", "github_id", "avatar_url", "site_admin",
       "synced_at"}, {{"enterprise_slug", "login", "org"}}, {}),
    Table("org_secret_scanning_alert_summaries",
      {"enterprise_slug", "org", "open_count", "resolved_count", "total_count", "synced_at"},
      {{"enterprise_slug", "org"}}, {}),
    Table("org_dependabot_alert_summaries",
      {"enterprise_slug", "org", "open_count", "fixed_count", "dismissed_count",
       "total_count", "critical_count", "high_count", "medium_count", "low_count",
       "synced_at"}, {{"enterprise_slug", "org"}}, {}),
    Table("enterprise_license_consumption",
      {"enterprise_slug", "total_seats_purchased", "total_seats_consumed", "seats",
       "synced_at"}, {{"enterprise_slug"}}, {})}
SecretAlertModels ==
  {Table("org_code_scanning_alert_summaries",
      {"enterprise_slug", "org", "open_count", "fixed_count", "dismissed_count",
       "total_count", "error_count", "warning_count", "note_count", "synced_at"},
      {{"enterprise_slug", "org"}}, {}),
    Table("org_actions_workflow_summaries",
      {"enterprise_slug", "org", "total_workflows", "active_workflows", "total_runs",
       "successful_runs", "failed_runs", "cancelled_runs", "synced_at"},
      {{"enterprise_slug", "org"}}, {}),
    Table("ghas_active_committers",
      {"org_slug", "total_active_committers", "maximum_active_committers",
       "purchased_committers", "synced_at"}, {{"org_slug"}}, {}),
    Table("secret_scanning_alerts",
      {"org_slug", "alert_number", "repo_full_name", "secret_type", "secret_type_display",
       "file_path", "commit_sha", "state", "resolution", "push_protection_bypassed",
       "push_protection_bypassed_by", "validity", "locations_count", "resolved_by",
       "created_at", "updated_at", "resolved_at", "synced_at"},
      {{"alert_number", "org_slug", "repo_full_name"}}, {})}
SecurityAlertModels ==
  {Table("code_scanning_alerts",
      {"org_slug", "alert_number", "repo_full_name", "rule_id", "rule_description",
       "severity", "security_severity", "cwe_ids", "tool_name", "file_path", "start_line",
       "state", "dismissed_by", "dismissed_reason", "dismissed_at", "created_at",
       "fixed_at", "synced_at"}, {{"alert_number", "org_slug", "repo_full_name"}}, {}),
    Table("dependabot_alerts",
      {"org_slug", "alert_number", "repo_full_name", "package_name", "package_ecosystem",
       "severity", "cvss_score", "cve_id", "cwe_ids", "vulnerable_version_range",
       "patched_version", "state", "dismissed_by", "dismissed_reason", "created_at",
       "fixed_at", "auto_dismissed_at", "synced_at"},
      {{"alert_number", "org_slug", "repo_full_name"}}, {}),
    Table("org_team_repos",
      {"created_at", "org", "team_slug", "repo_name", "repo_id", "permission", "synced_at"},
      {{"org", "repo_name", "team_slug"}}, {})}
AccessModels ==
  {Table("repo_collaborators",
      {"created_at", "org", "repo_name", "github_login", "github_id", "permission",
       "synced_at"}, {{"github_login", "org", "repo_name"}}, {}),
    Table("org_credential_authorizations",
      {"created_at", "org", "github_login", "credential_id", "credential_type",
       "token_last_eight", "credential_authorized_at", "credential_accessed_at", "scopes",
       "synced_at"}, {{"credential_id", "org"}}, {}),
    Table("org_webhooks",
      {"created_at", "org", "hook_id", "name", "active", "config_url",
       "config_content_type", "config_insecure_ssl", "events", "synced_at"},
      {{"hook_id", "org"}}, {}),
    Table("repo_webhooks",
      {"created_at", "org", "repo_name", "hook_id", "name", "active", "config_url",
       "config_content_type", "config_insecure_ssl", "events", "synced_at"},
      {{"hook_id", "org", "repo_name"}}, {})}
ActionsModels ==
  {Table("org_actions_permissions",
      {"created_at", "org", "enabled_repositories", "allowed_actions",
       "github_owned_allowed", "verified_allowed", "patterns_allowed", "synced_at"},
      {{"org"}}, {}),
    Table("org_self_hosted_runners",
      {"created_at", "org", "runner_id", "name", "os", "status", "busy", "labels",
       "runner_group_id", "runner_group_name", "synced_at"}, {{"org", "runner_id"}}, {}),
    Table("repo_deploy_keys",
      {"created_at", "org", "repo_name", "key_id", "title", "read_only", "key_added_at",
       "synced_at"}, {{"key_id", "org", "repo_name"}}, {})}
IngestionModels ==
  {Table("ingestion_cursors",
      {"source_type", "source_name", "source_region", "source_prefix", "last_prefix",
       "last_file", "last_event_count", "last_processed_at", "status", "error_message",
       "error_count", "poll_interval_sec", "created_at", "updated_at"}, {}, {})}
TicketingModels ==
  {Table("ticketing_configs",
      {"provider", "display_name", "target", "project_key", "default_issue_type",
       "severity_priority_map", "auto_create", "auto_create_severities",
       "credential_env_var", "enabled", "created_by", "created_at", "updated_at"}, {}, {}),
    Table("tickets",
      {"ticketing_config_id", "detection_id", "external_id", "external_url",
       "external_status", "created_by", "created_at", "last_synced_at"},
      {},
      {<<"ticketing_config_id", "ticketing_configs", "">>, <<"detection_id", "detections", "">>}),
    Table("notification_configs",
      {"channel_type", "display_name", "target", "credential_env_var", "notify_severities",
       "cooldown_seconds", "enabled", "created_by", "created_at", "updated_at",
       "rule_categories", "org_filter", "is_catch_all", "digest_enabled", "digest_cron"},
      {}, {}),
    Table("idp_actor_enrichments",
      {"github_login", "idp_provider", "idp_user_id", "email", "display_name", "department",
       "title", "employment_status", "manager_login", "location", "timezone",
       "raw_attributes", "last_synced_at", "sync_error"}, {}, {})}
IntegrationModels ==
  {Table("siem_export_configs",
      {"export_type", "display_name", "syslog_host", "syslog_port", "syslog_protocol",
       "syslog_format", "splunk_hec_url", "splunk_hec_token_env_var", "splunk_sourcetype",
       "splunk_index", "webhook_url", "webhook_secret_env_var", "webhook_headers",
       "enabled", "export_events", "export_detections", "created_by", "created_at",
       "updated_at"}, {}, {})}
NotificationModels ==
  {Table("notifications",
      {"user_id", "title", "message", "severity", "read", "source", "link", "created_at"},
      {}, {}),
    Table("notification_preferences",
      {"user_id", "in_app_enabled", "email_enabled", "slack_enabled", "severity_filter",
       "detection_alerts", "sync_alerts", "system_alerts", "updated_at"},
      {{"user_id"}}, {})}
OrgConfigModels ==
  {Table("org_config",
      {"org_slug", "copilot_cost_per_seat", "created_at", "updated_at"},
      {{"org_slug"}}, {})}
PackageModels ==
  {Table("packages",
      {"org", "repo", "name", "package_type", "visibility", "owner", "versions_count",
       "latest_version", "last_published_at", "created_at", "updated_at", "is_stale",
       "published_outside_actions", "published_by_external"}, {}, {}),
    Table("package_alerts",
      {"package_id", "alert_type", "severity", "message", "detected_at", "resolved_at",
       "status"}, {}, {<<"package_id", "packages", "cascade">>})}
PlaybookModels ==
  {Table("playbook_templates",
      {"name", "slug", "description", "detection_categories", "steps", "created_by",
       "created_at", "updated_at"}, {{"slug"}}, {}),
    Table("playbook_executions",
      {"template_id", "detection_id", "status", "step_results", "started_by", "started_at",
       "completed_at"},
      {},
      {<<"template_id", "playbook_templates", "cascade">>, <<"detection_id", "detections", "cascade">>})}
QueryTemplateModels ==
  {Table("query_templates",
      {"name", "description", "sql", "created_by", "org_slug", "created_at", "updated_at"},
      {}, {})}
ReportScheduleModels ==
  {Table("report_schedules",
      {"report_type", "org", "cron_expression", "export_format", "recipients", "enabled",
       "created_by", "last_run_at", "last_status", "created_at", "updated_at"}, {}, {})}
RetentionPolicyModels ==
  {Table("retention_policies",
      {"data_type", "category", "display_name", "description", "retention_days",
       "minimum_days", "is_system", "updated_by", "updated_at", "created_at"},
      {{"data_type"}}, {})}
SavedQueryModels ==
  {Table("saved_queries",
      {"name", "description", "sql_text", "owner_login", "is_shared", "shared_with", "tags",
       "schedule_cron", "schedule_enabled", "last_run_at", "created_at", "updated_at"},
      {}, {})}
SystemHealthModels ==
  {Table("system_health_events",
      {"occurred_at", "org", "signal_type", "severity", "detail", "resolved_at"}, {}, {})}
TeamModels ==
  {Table("teams",
      {"name", "slug", "description", "github_org", "github_team_slug", "auto_sync",
       "created_by", "created_at", "updated_at"}, {{"name"}, {"slug"}}, {}),
    Table("team_memberships",
      {"team_id", "user_login", "added_by", "created_at"},
      {{"team_id", "user_login"}}, {<<"team_id", "teams", "cascade">>}),
    Table("team_role_assignments",
      {"team_id", "role_id", "org_slug", "repo_slugs", "assigned_by", "created_at"},
      {{"role_id", "team_id"}},
      {<<"team_id", "teams", "cascade">>, <<"role_id", "rbac_roles", "cascade">>})}
ThreatIntelModels ==
  {Table("threat_intel_domains",
      {"domain", "source", "confidence", "active", "added_at", "added_by", "expires_at",
       "notes"}, {{"domain"}}, {}),
    Table("threat_intel_indicators",
      {"indicator_type", "value", "source", "confidence", "active", "added_at", "added_by",
       "expires_at", "notes", "feed_id", "campaign_id", "metadata_json"},
      {}, {<<"campaign_id", "threat_intel_campaigns", "null">>}),
    Table("threat_intel_feeds",
      {"name", "url", "feed_type", "enabled", "refresh_interval_minutes", "last_fetched_at",
       "last_fetch_status", "last_indicator_count", "created_by", "created_at",
       "updated_at", "is_default", "parser_type", "parser_config", "auto_rule_generation",
       "default_campaign_id"},
      {}, {<<"default_campaign_id", "threat_intel_campaigns", "null">>}),
    Table("threat_intel_campaigns",
      {"name", "slug", "description", "first_seen_at", "last_updated", "severity", "status",
       "source_feed_id", "metadata_json", "indicator_count"},
      {{"name"}, {"slug"}}, {<<"source_feed_id", "threat_intel_feeds", "null">>})}
UserModels ==
  {Table("rbac_roles",
      {"name", "display_name", "description", "permissions", "is_system", "is_custom",
       "created_at", "updated_at"}, {{"name"}}, {}),
    Table("user_role_assignments",
      {"github_login", "github_team_id", "github_team_slug", "saml_subject", "role_id",
       "scope_type", "scope_value", "granted_by", "granted_at", "expires_at", "active"},
      {}, {<<"role_id", "rbac_roles", "">>})}
UserClassificationModels ==
  {Table("user_classifications",
      {"user_login", "org", "persona", "confidence_score", "event_count", "surfaces",
       "analysis_window_days", "classified_at", "created_at", "updated_at"}, {}, {})}
UtilizationModels ==
  {Table("utilization_facts",
      {"org_slug", "actor_login", "feature_area", "metric_date", "actions_minutes",
       "actions_runs", "copilot_suggestions", "copilot_acceptances", "copilot_credits",
       "ghas_alerts_dismissed", "git_clones", "git_pushes", "packages_published",
       "storage_bytes", "created_at"}, {}, {})}
WorkflowFindingModels ==
  {Table("workflow_findings",
      {"repo", "org", "workflow_path", "rule_id", "severity", "title", "description",
       "details", "suggested_fix", "scanned_at"},
      {{"repo", "rule_id", "workflow_path"}}, {})}
WorkflowScanActivityModels ==
  {Table("workflow_scan_activities",
      {"trigger_event_ids", "org", "repo", "workflow_path", "started_at", "completed_at",
       "status", "checks_performed", "findings_count", "data_sources", "duration_ms",
       "error_message"}, {}, {})}
-----------------------------------------------------------------------------
\* All of them.
AllModels ==
  UNION {AppSettingsModels, AuditEventModels, AuditTrailModels, AuthMethodModels,
         AutomationModels, CopilotMetricsModels, CopilotPolicyModels,
         CopilotSessionModels, CopilotUsageModels, CorrelationModels,
         CustomReportModels, DashboardConfigModels, DeliveryTimelineModels,
         RuleModels, DetectionModels, ExternalCollaboratorModels, SyncRunModels,
         MemberModels, RepositoryModels, SummaryModels, SecretAlertModels,
         SecurityAlertModels, AccessModels, ActionsModels, IngestionModels,
         TicketingModels, IntegrationModels, NotificationModels, OrgConfigModels,
         PackageModels, PlaybookModels, QueryTemplateModels, ReportScheduleModels,
         RetentionPolicyModels, SavedQueryModels, SystemHealthModels, TeamModels,
         ThreatIntelModels, UserModels, UserClassificationModels,
         UtilizationModels, WorkflowFindingModels, WorkflowScanActivityModels}
=============================================================================
