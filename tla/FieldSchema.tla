---------------------------- MODULE FieldSchema ----------------------------
(***************************************************************************)
(* How each reconciler translates the fields of its resource into a        *)
(* request, and how it compares them with what OpenBao returns.  A Spec    *)
(* table lists the fields of a resource by the Go type of the field; a     *)
(* Fields table gives each of them its shape:                              *)
(*   type   "list"; "map"; "text" and "key", an optional and a required    *)
(*          string; "flag", "number" and "duration", which are pointers    *)
(*          and may be unset; "secret", a reference to a Kubernetes Secret *)
(*   check  which values are refused: by the schema of the resource when   *)
(*          "required" and not set; by the operator when "missing", when a *)
(*          list holds "blank" elements, when a number is not "whole" or   *)
(*          not "positive"                                                 *)
(*   norm   what it does to a list before sending it: "set" trims, sorts   *)
(*          and drops duplicates, "sorted" only sorts, "unique" sorts and  *)
(*          drops duplicates, "copy" turns an empty list into nil, "raw"   *)
(*          does nothing                                                   *)
(*   sent   "always"; "ifset" (not when empty); "given" (not when nil);    *)
(*          "create" (only when a mount is enabled)                        *)
(*   seen   whether it is compared "always", "ifset" or "never"            *)
(*   by     how: "typed" values, "json" texts, "deep" (reflect.DeepEqual   *)
(*          of maps), "any" (reflect.DeepEqual of a Go value with decoded  *)
(*          JSON), "hash" (of the Secret, with the one in status),         *)
(*          "absent" (the response has no such field)                      *)
(* Fields with the same shape are interchangeable.                         *)
(***************************************************************************)
Types == {"list", "map", "text", "key", "flag", "number", "duration", "secret"}
Checks == {"blank", "whole", "positive", "missing", "required"}
Shapes ==
    [type : Types, check : SUBSET Checks,
     norm : {"set", "sorted", "unique", "copy", "raw"},
     sent : {"always", "ifset", "given", "create"},
     seen : {"always", "ifset", "never"},
     by : {"typed", "json", "deep", "any", "hash", "absent"}]

Treated(check, norm, sent, seen, by) ==
    [check |-> check, norm |-> norm, sent |-> sent, seen |-> seen, by |-> by]

(* Fields that are left out of the request and of the comparison when the  *)
(* resource does not set them; durations go through durationSeconds.       *)
Optional(by) ==
    [t \in Types |->
        Treated(IF t = "duration" THEN {"whole"} ELSE {}, "raw", "ifset", "ifset", by)]

(* Both tables in one; the first wins. *)
f ++ g == [x \in DOMAIN f \cup DOMAIN g |-> IF x \in DOMAIN f THEN f[x] ELSE g[x]]

Field(type, rule) == [type |-> type] ++ rule
Each(names, type, rule) == [f \in names |-> Field(type, rule)]

(* The shape of every field of a Spec table, by the rule for its type. *)
Shaped(spec, rules) ==
    [f \in UNION {spec[t] : t \in DOMAIN spec} |->
        LET t == CHOOSE t \in DOMAIN spec : f \in spec[t] IN Field(t, rules[t])]

----------------------------------------------------------------------------
(* Identity *)

EntitySpec == [map |-> {"metadata"}, list |-> {"policies"}, flag |-> {"disabled"}]
EntityFields ==
    Shaped(EntitySpec, [map |-> Treated({}, "raw", "always", "always", "deep"),
                        list |-> Treated({}, "sorted", "always", "always", "typed"),
                        flag |-> Treated({}, "raw", "always", "always", "typed")])

GroupSpec == [map |-> {"metadata"}, list |-> {"policies"}]
GroupFields ==
    Shaped(GroupSpec, [map |-> Treated({}, "raw", "always", "always", "typed"),
                       list |-> Treated({}, "unique", "always", "always", "typed")])

IdentityKey == Treated({"required"}, "raw", "ifset", "always", "typed")

EntityAliasSpec == [key |-> {"name", "mountAccessor", "entityRef"}]
EntityAliasFields == Shaped(EntityAliasSpec, [key |-> IdentityKey])

GroupAliasSpec == [key |-> {"name", "mountAccessor", "groupRef"}]
GroupAliasFields == Shaped(GroupAliasSpec, [key |-> IdentityKey])

PersonaSpec == [key |-> {"name", "entityID", "mountAccessor"}, map |-> {"metadata"}]
PersonaFields ==
    Shaped(PersonaSpec, [key |-> IdentityKey,
                         map |-> Treated({}, "raw", "ifset", "always", "typed")])

PolicySpec == [key |-> {"rules"}]
PasswordPolicySpec == [key |-> {"rules"}]
PolicyFields == Shaped(PolicySpec, [key |-> Treated({"required"}, "raw", "always", "always", "typed")])
PasswordPolicyFields ==
    Shaped(PasswordPolicySpec, [key |-> Treated({"required"}, "raw", "always", "always", "typed")])

----------------------------------------------------------------------------
(* Roles *)

TokenRoleSpec ==
    [list |-> {"allowedEntityAliases", "allowedPolicies", "allowedPoliciesGlob",
               "disallowedPolicies", "disallowedPoliciesGlob", "tokenBoundCIDRs"},
     duration |-> {"tokenExplicitMaxTTL", "tokenPeriod"},
     number |-> {"tokenNumUses"},
     flag |-> {"tokenNoDefaultPolicy", "orphan", "renewable"},
     text |-> {"tokenType", "pathSuffix"}]
TokenRoleFields ==
    Shaped(TokenRoleSpec,
           [list |-> Treated({"blank"}, "set", "ifset", "always", "typed")] ++ Optional("typed"))

AppRoleSpec ==
    [list |-> {"secretIDBoundCIDRs", "tokenBoundCIDRs", "tokenPolicies"},
     duration |-> {"secretIDTTL", "tokenExplicitMaxTTL", "tokenMaxTTL", "tokenPeriod", "tokenTTL"},
     number |-> {"secretIDNumUses", "tokenNumUses"},
     flag |-> {"bindSecretID", "localSecretIDs", "tokenNoDefaultPolicy"},
     text |-> {"tokenType"}]
AppRoleFields ==
    Shaped(AppRoleSpec,
           [list |-> Treated({"blank"}, "set", "ifset", "ifset", "typed")] ++ Optional("typed"))

KubernetesAuthRoleSpec ==
    [list |-> {"boundServiceAccountNames", "boundServiceAccountNamespaces", "tokenPolicies",
               "tokenBoundCIDRs"},
     duration |-> {"tokenTTL", "tokenMaxTTL", "tokenPeriod", "tokenExplicitMaxTTL"},
     number |-> {"tokenNumUses"}, flag |-> {"tokenNoDefaultPolicy"},
     text |-> {"audience", "tokenType"}]
KubernetesAuthRoleFields ==
    Each({"boundServiceAccountNames", "boundServiceAccountNamespaces"}, "list",
         Treated({"blank", "required"}, "set", "always", "always", "typed"))
      ++ Each({"tokenPolicies"}, "list", Treated({"blank"}, "set", "always", "always", "typed"))
      ++ Each({"tokenTTL", "tokenMaxTTL", "tokenPeriod"}, "duration",
              Treated({"whole"}, "raw", "always", "always", "typed"))
      ++ Shaped(KubernetesAuthRoleSpec,
                [list |-> Treated({}, "set", "ifset", "ifset", "typed")] ++ Optional("typed"))

----------------------------------------------------------------------------
(* System *)

(* A string without which the operator makes no request. *)
Needed(by) == Treated({"missing"}, "raw", "always", "always", by)

MountSpec ==
    [key |-> {"type"},
     text |-> {"description", "pluginName", "pluginVersion", "listingVisibility", "tokenType"},
     flag |-> {"local", "sealWrap", "externalEntropyAccess"},
     map |-> {"options", "config"},
     duration |-> {"defaultLeaseTTL", "maxLeaseTTL"},
     list |-> {"passthroughRequestHeaders", "allowedResponseHeaders"}]
(* What only enabling a mount sends.  A mount has no plugin_name. *)
MountFields ==
    Each({"type"}, "key", Treated({"missing"}, "raw", "create", "always", "json"))
      ++ Each({"pluginName"}, "text", Treated({}, "raw", "create", "ifset", "absent"))
      ++ Each({"pluginVersion"}, "text", Treated({}, "raw", "create", "ifset", "json"))
      ++ Each(MountSpec.flag, "flag", Treated({}, "raw", "create", "ifset", "json"))
      ++ Each(MountSpec.map, "map", Treated({}, "raw", "create", "ifset", "json"))
(* What a tune sends; only the description is compared. *)
TuneFields ==
    Each({"description"}, "text", Optional("json").text)
      ++ Each({"listingVisibility", "tokenType"}, "text", Treated({}, "raw", "ifset", "never", "json"))
      ++ Each(MountSpec.duration, "duration", Treated({"whole"}, "raw", "ifset", "never", "json"))
      ++ Each(MountSpec.list, "list", Treated({}, "raw", "ifset", "never", "json"))

NamespaceSpec == [map |-> {"customMetadata"}]
NamespaceFields == Shaped(NamespaceSpec, Optional("json"))

AuditDeviceSpec ==
    [key |-> {"type"}, text |-> {"description"}, flag |-> {"local"}, map |-> {"options"}]
AuditDeviceFields ==
    Shaped(AuditDeviceSpec, [key |-> Needed("json"),
                             map |-> Treated({}, "raw", "given", "ifset", "json")] ++ Optional("json"))

RateLimitQuotaSpec ==
    [key |-> {"type"}, text |-> {"path", "role"}, number |-> {"rate"},
     duration |-> {"interval", "blockInterval"}, flag |-> {"inheritable"}]
RateLimitQuotaFields ==
    Shaped(RateLimitQuotaSpec, [key |-> Needed("json"),
                                number |-> Treated({"positive"}, "raw", "ifset", "ifset", "json")]
                                 ++ Optional("json"))

WorkflowSpec ==
    [key |-> {"workflow"}, text |-> {"description"}, number |-> {"cas"},
     flag |-> {"allowUnauthenticated", "casRequired"}]
WorkflowFields == Shaped(WorkflowSpec, [key |-> Needed("json")] ++ Optional("json"))

PluginSpec ==
    [key |-> {"type"}, text |-> {"command", "sha256", "version"}, list |-> {"args", "env"},
     flag |-> {"oci"}]
PluginFields ==
    Shaped(PluginSpec, [key |-> Needed("json"),
                        list |-> Treated({}, "raw", "given", "ifset", "json")] ++ Optional("json"))

----------------------------------------------------------------------------
(* Additional configuration *)

(* Lists that are copied with append([]string(nil), values...). *)
CopiedLists == [list |-> Treated({}, "copy", "given", "ifset", "json")] ++ Optional("json")

CORSSpec == [flag |-> {"enable", "allowCredentials"}, list |-> {"allowedHeaders", "allowedOrigins"}]
CORSFields == Shaped(CORSSpec, CopiedLists)

AuditRequestHeaderSpec == [flag |-> {"hmac"}]
AuditRequestHeaderFields == Shaped(AuditRequestHeaderSpec, Optional("json"))

UIHeaderSpec == [list |-> {"values"}, flag |-> {"multivalue"}]
UIHeaderFields == Shaped(UIHeaderSpec, CopiedLists)

QuotaConfigurationSpec ==
    [flag |-> {"enableRateLimitAuditLogging", "enableRateLimitResponseHeaders"},
     list |-> {"rateLimitExemptPaths"}]
QuotaConfigurationFields == Shaped(QuotaConfigurationSpec, CopiedLists)

LoggerSpec == [key |-> {"level"}]
LoggerFields == Shaped(LoggerSpec, [key |-> Needed("json")])

(* The encryption-key and the keyring rotation configuration. *)
RotationSpec == [flag |-> {"enabled"}, duration |-> {"interval"}, number |-> {"maxOperations"}]
RotationFields ==
    Each({"maxOperations"}, "number", Treated({"whole"}, "raw", "ifset", "ifset", "json"))
      ++ Shaped(RotationSpec, Optional("json"))

----------------------------------------------------------------------------
(* Multi-factor authentication *)

MFALoginEnforcementSpec ==
    [list |-> {"mfaMethodIDs", "authMethodAccessors", "authMethodTypes", "identityEntityIDs",
               "identityGroupIDs"}]
MFALoginEnforcementFields ==
    Each({"mfaMethodIDs"}, "list", Treated({"blank", "missing"}, "set", "always", "always", "json"))
      ++ Shaped(MFALoginEnforcementSpec, [list |-> Treated({"blank"}, "set", "ifset", "ifset", "json")])

MFAMethodSpec ==
    [key |-> {"methodName"},
     text |-> {"usernameFormat", "apiHostname", "integrationKey", "pushInfo", "baseURL", "orgName",
               "algorithm", "issuer"},
     flag |-> {"usePasscode", "primaryEmail", "production"},
     number |-> {"digits", "keySize", "maxValidationAttempts", "period", "qrSize", "skew"},
     secret |-> {"secretKeyRef", "apiTokenRef", "settingsFileRef"}]
MFAMethodFields ==
    Shaped(MFAMethodSpec, [key |-> Needed("json"),
                           secret |-> Treated({"missing"}, "raw", "always", "never", "hash")]
                            ++ Optional("json"))

----------------------------------------------------------------------------
(* OpenID Connect: lists go through oidcStrings, durations through         *)
(* oidcOptionalDuration, and all are compared by oidcDesiredFieldsMatch.   *)

OIDCRules ==
    [key |-> Needed("any"), list |-> Treated({"blank"}, "set", "ifset", "ifset", "any")] ++ Optional("any")

OIDCConfigSpec == [text |-> {"issuer"}]
OIDCConfigFields == Shaped(OIDCConfigSpec, OIDCRules)

OIDCProviderSpec == [text |-> {"issuer"}, list |-> {"allowedClientIDs", "scopesSupported"}]
OIDCProviderFields == Shaped(OIDCProviderSpec, OIDCRules)

OIDCClientSpec ==
    [text |-> {"clientType", "key"}, flag |-> {"authorizationCode", "clientCredentials"},
     list |-> {"assignments", "redirectURIs"}, duration |-> {"accessTokenTTL", "idTokenTTL"}]
OIDCClientFields == Shaped(OIDCClientSpec, OIDCRules)

OIDCKeySpec ==
    [text |-> {"algorithm"}, list |-> {"allowedClientIDs"},
     duration |-> {"rotationPeriod", "verificationTTL"}]
OIDCKeyFields == Shaped(OIDCKeySpec, OIDCRules)

OIDCRoleSpec == [key |-> {"key"}, text |-> {"clientID", "template"}, duration |-> {"ttl"}]
OIDCRoleFields == Shaped(OIDCRoleSpec, OIDCRules)

OIDCScopeSpec == [text |-> {"description", "template"}]
OIDCScopeFields == Shaped(OIDCScopeSpec, OIDCRules)

OIDCAssignmentSpec == [list |-> {"entityIDs", "groupIDs"}]
OIDCAssignmentFields == Shaped(OIDCAssignmentSpec, OIDCRules)

----------------------------------------------------------------------------

(* The fields of each kind of resource. *)
Schema ==
    [entity |-> EntityFields, group |-> GroupFields, entityAlias |-> EntityAliasFields,
     groupAlias |-> GroupAliasFields, persona |-> PersonaFields, policy |-> PolicyFields,
     passwordPolicy |-> PasswordPolicyFields, tokenRole |-> TokenRoleFields,
     appRole |-> AppRoleFields, kubernetesAuthRole |-> KubernetesAuthRoleFields,
     mount |-> MountFields ++ TuneFields, namespace |-> NamespaceFields,
     auditDevice |-> AuditDeviceFields, rateLimitQuota |-> RateLimitQuotaFields,
     workflow |-> WorkflowFields, plugin |-> PluginFields, cors |-> CORSFields,
     auditRequestHeader |-> AuditRequestHeaderFields, uiHeader |-> UIHeaderFields,
     quotaConfiguration |-> QuotaConfigurationFields, logger |-> LoggerFields,
     rotation |-> RotationFields, mfaLoginEnforcement |-> MFALoginEnforcementFields,
     mfaMethod |-> MFAMethodFields, oidcConfig |-> OIDCConfigFields,
     oidcProvider |-> OIDCProviderFields, oidcClient |-> OIDCClientFields,
     oidcKey |-> OIDCKeyFields, oidcRole |-> OIDCRoleFields, oidcScope |-> OIDCScopeFields,
     oidcAssignment |-> OIDCAssignmentFields]

=============================================================================
