---------------------------- MODULE DocumentTypes ---------------------------
(***************************************************************************)
(* The XML types that have an UnmarshalXML, and some a MarshalXML, of      *)
(* their own (3gpp/models, dvb/models): the fields of each and how they    *)
(* are bound to the document.                                              *)
(***************************************************************************)

\* required and omitted fields are plain, the latter not written when zero;
\* pointers are nil at first; lists may repeat.  A field of the overlay is
\* either aliased, a pointer to the field of the struct, or copied, the pointer
\* that the struct has when decoding begins.  text is the characters between
\* the tags, times and binaries are the texts of xsdDateTime and []byte, and
\* hidden fields are not bound at all.  `Items` takes the elements of no field.
Struct(required, omitted, pointers, lists, aliased) ==
  [required |-> required, omitted |-> omitted, pointers |-> pointers, lists |-> lists,
   aliased |-> aliased, copied |-> {}, text |-> {}, times |-> {}, binaries |-> {}, hidden |-> {}]

-----------------------------------------------------------------------------
(* Schedules (3gpp/models/schedule.go)                                     *)

DeliveryInfo ==
  [Struct({}, {"Start", "End"}, {}, {}, {"Start", "End"})
     EXCEPT !.times = {"Start", "End"}]

FileSchedule ==
  [Struct({"FileURI", "Delimiter", "FileMD5"}, {"SessionId", "UnicastOnly"},
          {"ReceptionFiltering"}, {"Items", "DeliveryInfo"}, {"FileMD5", "UnicastOnly"})
     EXCEPT !.binaries = {"FileMD5"}]

ReoccurenceStartStop ==
  [Struct({"Start", "Stop", "Delimiter"}, {"SessionDescriptionURI"},
          {"ReoccurencePattern", "NumberOfTimes", "ReoccurenceStopTime", "Index",
           "ReceptionFiltering", "FDTInstanceURI", "RecurrenceAndMonitoring"}, {"Items"},
          {"Start", "Stop"})
     EXCEPT !.copied = {"ReoccurenceStopTime"}, !.times = {"Start", "Stop",
            "ReoccurenceStopTime"}]

ScheduleDescription ==
  [Struct({"SchemaVersion"}, {"ScheduleUpdate", "FilterDescriptionReference"}, {},
          {"Items", "ServiceSchedule"}, {"ScheduleUpdate"})
     EXCEPT !.times = {"ScheduleUpdate"}]

SessionScheduleOverride ==
  [Struct({"Start", "Stop", "Index"}, {"Cancelled"}, {}, {}, {"Start", "Stop"})
     EXCEPT !.times = {"Start", "Stop"}]

-----------------------------------------------------------------------------
(* Associated delivery procedures (3gpp/models/apd.go)                     *)

ConsumptionReportType ==
  Struct({"RandomTimePeriod"},
         {"SamplePercentage", "ReportInterval", "OffsetTime", "ReportClientId"}, {"Location"},
         {"Items", "ServiceURI"}, {"SamplePercentage", "ReportClientId"})

DASHQoEProcedureType ==
  [Struct({"DASHQoEMetrics"}, {}, {"DASHQoESamplePercentage"}, {"Items"}, {})
     EXCEPT !.copied = {"DASHQoESamplePercentage"}]

ReportProcedureType ==
  Struct({"RandomTimePeriod"},
         {"SamplePercentage", "ForceTimeIndependence", "ReportType", "ReportInterval",
          "OffsetTime"}, {}, {"ServiceURI"},
         {"SamplePercentage", "ForceTimeIndependence", "ReportType"})

-----------------------------------------------------------------------------
(* Security (3gpp/models/security.go)                                      *)

FecProtectionType ==
  Struct({}, {"FecEncodingId", "FecInstanceId", "FecOtiExtension"}, {}, {}, {"FecEncodingId"})

KeyManagementType ==
  Struct({}, {"OffsetTime", "RandomTimePeriod", "UiccKeyManagement"}, {},
         {"Items", "ServerURI"}, {"OffsetTime", "RandomTimePeriod", "UiccKeyManagement"})

MSKType ==
  [Struct({"KeyDomainID", "MSKID"}, {}, {}, {}, {"KeyDomainID"})
     EXCEPT !.binaries = {"KeyDomainID", "MSKID"}]

-----------------------------------------------------------------------------
(* User service descriptions (3gpp/models/usd.go)                          *)

AlternativeAccessDelivery ==
  Struct({}, {"TimeShiftingBuffer"}, {}, {"UnicastAccessURI"}, {"TimeShiftingBuffer"})

UserServiceDescription ==
  Struct({"Delimiter", "ServiceId"}, {"ServiceClass", "RomService"},
         {"RequiredCapabilities", "ServiceGroup", "InitiationRandomization",
          "TerminationRandomization", "Registration", "MediaPresentationDescription",
          "Schedule", "AvailabilityInfo", "KeepUpdatedService", "MooDConfiguration",
          "ConsumptionReporting", "ROMSvcRfParams"},
         {"Name", "ServiceLanguage", "DeliveryMethod", "AccessGroup", "AppService"},
         {"RomService"})

Registration ==
  Struct({}, {"RegistrationThreshold"}, {}, {"RegistrationURI"}, {"RegistrationThreshold"})

\* ScheduleDescription is embedded, and with it its UnmarshalXML and MarshalXML:
\* the field of Schedule itself is neither read nor written.
Schedule ==
  [ScheduleDescription EXCEPT !.required = @ \cup {"ScheduleDescriptionURI"},
                              !.hidden = {"ScheduleDescriptionURI"}]

-----------------------------------------------------------------------------
(* Mobile location (3gpp/models/mlp.go)                                    *)

Esrd == [Struct({"Value"}, {"Type"}, {}, {}, {"Type"}) EXCEPT !.text = {"Value"}]

Esrk == [Struct({"Value"}, {"Type"}, {}, {}, {"Type"}) EXCEPT !.text = {"Value"}]

Loctype == Struct({}, {"Type"}, {}, {}, {"Type"})

Msid == [Struct({"Value"}, {"Type", "Enc"}, {}, {}, {"Type", "Enc"}) EXCEPT !.text = {"Value"}]

Prio == Struct({}, {"Type"}, {}, {}, {"Type"})

Requestmode == Struct({}, {"Type"}, {}, {}, {"Type"})

Respreq == Struct({}, {"Type"}, {}, {}, {"Type"})

Starttime == [Struct({"Value"}, {"Utcoff"}, {}, {}, {"Utcoff"}) EXCEPT !.text = {"Value"}]

Stoptime == [Struct({"Value"}, {"Utcoff"}, {}, {}, {"Utcoff"}) EXCEPT !.text = {"Value"}]

Subclient == Struct({"Id"}, {"Lastclient"}, {"Pwd", "Serviceid"}, {}, {"Lastclient"})

MlpTime == [Struct({"Value"}, {"Utcoff"}, {}, {}, {"Utcoff"}) EXCEPT !.text = {"Value"}]

-----------------------------------------------------------------------------
(* Multicast sessions (dvb/models/session_config.go)                       *)

Anon10 ==
  Struct({}, {"PreferenceValue"},
         {"TimePoint", "RelTimePoint", "RelIncrTimePoint", "Duration", "IncrDuration"}, {},
         {"PreferenceValue"})

BaseMulticastTransportSessionType ==
  Struct({"TransportProtocol", "BitRate"}, {"TransportSecurity"}, {"UnicastRepairParameters"},
         {"EndpointAddress", "ForwardErrorCorrectionParameters"}, {"TransportSecurity"})

BitRate ==
  [Struct({"Value"}, {"Variable", "Minimum", "Average", "Maximum"}, {}, {}, {"Variable"})
     EXCEPT !.text = {"Value"}]

BrowsingPreferencesType ==
  Struct({}, {"Protected", "PreferenceValue", "TimeBase", "TimeUnit"}, {},
         {"SummaryPreferences", "PreferenceCondition"}, {"Protected", "PreferenceValue"})

CaptionLanguage ==
  [Struct({"Value"}, {"PreferenceValue"}, {}, {}, {"PreferenceValue"})
     EXCEPT !.text = {"Value"}]

ClassificationPreferencesType ==
  Struct({}, {"PreferenceValue", "TimeBase", "TimeUnit"}, {},
         {"Country", "DatePeriod", "LanguageFormat", "Language", "CaptionLanguage", "Form",
          "Genre", "Subject", "Review", "ParentalGuidance"}, {"PreferenceValue"})

Country ==
  [Struct({"CountryCode"}, {"PreferenceValue"}, {}, {}, {"PreferenceValue"})
     EXCEPT !.text = {"CountryCode"}]

CreationPreferencesType ==
  Struct({}, {"PreferenceValue", "TimeBase", "TimeUnit"}, {},
         {"Title", "Creator", "Keyword", "Location", "DatePeriod", "Tool"}, {"PreferenceValue"})

Creator ==
  Struct({"Role"}, {"PreferenceValue"}, {"Agent", "AgentRef"}, {"Character"},
         {"PreferenceValue"})

DatePeriod ==
  Struct({}, {"PreferenceValue"},
         {"TimePoint", "RelTimePoint", "RelIncrTimePoint", "Duration", "IncrDuration"}, {},
         {"PreferenceValue"})

DisseminationDate ==
  Struct({}, {"PreferenceValue"},
         {"TimePoint", "RelTimePoint", "RelIncrTimePoint", "Duration", "IncrDuration"}, {},
         {"PreferenceValue"})

DisseminationFormat ==
  Struct({}, {"PreferenceValue"}, {}, {"Name", "Definition"}, {"PreferenceValue"})

DisseminationLocation ==
  Struct({}, {"PreferenceValue", "Lang", "TimeBase", "TimeUnit"},
         {"Role", "GeographicPosition", "PostalAddress", "InternalCoordinates"},
         {"Name", "NameTerm", "Region", "AdministrativeUnit"}, {"PreferenceValue"})

DisseminationSource ==
  [Struct({"Value"}, {"PreferenceValue", "Lang"}, {}, {}, {"PreferenceValue"})
     EXCEPT !.text = {"Value"}]

Disseminator ==
  Struct({"Role"}, {"PreferenceValue"}, {"Agent", "AgentRef"}, {}, {"PreferenceValue"})

ExtendedLanguageType ==
  [Struct({"Value"}, {"Type", "Supplemental"}, {}, {}, {"Type", "Supplemental"})
     EXCEPT !.text = {"Value"}]

FilteringAndSearchPreferencesType ==
  Struct({}, {"Protected", "PreferenceValue", "TimeBase", "TimeUnit"}, {},
         {"CreationPreferences", "ClassificationPreferences", "SourcePreferences",
          "PreferenceCondition", "FilteringAndSearchPreferences"},
         {"Protected", "PreferenceValue"})

Form == Struct({}, {"PreferenceValue"}, {}, {"Name", "Definition"}, {"PreferenceValue"})

Format == Struct({}, {"ColorDomain"}, {}, {"Name", "Definition"}, {"ColorDomain"})

Genre == Struct({}, {"PreferenceValue"}, {}, {"Name", "Definition"}, {"PreferenceValue"})

InlineMediaType ==
  [Struct({"Type"}, {}, {"MediaData16", "MediaData64"}, {}, {})
     EXCEPT !.copied = {"MediaData16", "MediaData64"}, !.binaries = {"MediaData16",
            "MediaData64"}]

Keyword ==
  [Struct({"Value"}, {"PreferenceValue", "Lang"}, {}, {}, {"PreferenceValue"})
     EXCEPT !.text = {"Value"}]

Language ==
  [Struct({"Value"}, {"PreferenceValue", "Type", "Supplemental"}, {}, {},
          {"PreferenceValue", "Type", "Supplemental"})
     EXCEPT !.text = {"Value"}]

LanguageFormat ==
  [Struct({"AuxiliaryLanguageType"}, {"PreferenceValue"}, {}, {}, {"PreferenceValue"})
     EXCEPT !.text = {"AuxiliaryLanguageType"}]

Location ==
  Struct({}, {"PreferenceValue", "Lang", "TimeBase", "TimeUnit"},
         {"Role", "GeographicPosition", "PostalAddress", "InternalCoordinates"},
         {"Name", "NameTerm", "Region", "AdministrativeUnit"}, {"PreferenceValue"})

MediaFormat ==
  Struct({"Content"}, {"PreferenceValue"},
         {"Medium", "FileFormat", "FileSize", "System", "BitRate", "VisualCoding",
          "AudioCoding", "SceneCodingFormat", "GraphicsCodingFormat", "OtherCodingFormat"}, {},
         {"PreferenceValue"})

MulticastSessionType ==
  Struct({"ServiceIdentifier"}, {"ContentPlaybackAvailabilityOffset"},
         {"MulticastGatewaySessionReporting"},
         {"PresentationManifestLocator", "MulticastTransportSession"},
         {"ContentPlaybackAvailabilityOffset"})

MulticastTransportSessionType ==
  Struct({"TransportProtocol", "BitRate", "SessionIdleTimeout"},
         {"Start", "Duration", "ContentIngestMethod", "TransmissionMode", "TransportSecurity"},
         {"UnicastRepairParameters"},
         {"EndpointAddress", "ForwardErrorCorrectionParameters", "ServiceComponentIdentifier"},
         {"ContentIngestMethod", "TransmissionMode", "TransportSecurity"})

ParentalGuidance ==
  Struct({}, {"PreferenceValue"}, {"ParentalRating", "MinimumAge"}, {"Region"},
         {"PreferenceValue"})

ReportingLocatorType ==
  [Struct({"Value", "Period", "RandomDelay"}, {"Proportion"}, {}, {}, {"Proportion"})
     EXCEPT !.text = {"Value"}]

Review == Struct({}, {"PreferenceValue"}, {"Rating", "Reviewer"}, {}, {"PreferenceValue"})

SourcePreferencesType ==
  Struct({},
         {"NoRepeat", "NoEncryption", "NoPayPerUse", "PreferenceValue", "TimeBase", "TimeUnit"},
         {},
         {"DisseminationFormat", "DisseminationSource", "DisseminationLocation",
          "DisseminationDate", "Disseminator", "MediaFormat"}, {"PreferenceValue"})

Subject ==
  [Struct({"Value"}, {"PreferenceValue", "Lang"}, {}, {}, {"PreferenceValue"})
     EXCEPT !.text = {"Value"}]

SummaryPreferencesType ==
  Struct({}, {"PreferenceValue", "TimeBase", "TimeUnit"},
         {"SummaryDuration", "MinSummaryDuration", "MaxSummaryDuration", "NumOfKeyFrames",
          "MinNumOfKeyFrames", "MaxNumOfKeyFrames", "NumOfChars", "MinNumOfChars",
          "MaxNumOfChars"}, {"SummaryType", "SummaryTheme"}, {"PreferenceValue"})

SummaryTheme ==
  [Struct({"Value"}, {"PreferenceValue", "Lang"}, {}, {}, {"PreferenceValue"})
     EXCEPT !.text = {"Value"}]

SummaryType ==
  [Struct({"SummaryComponentType"}, {"PreferenceValue"}, {}, {}, {"PreferenceValue"})
     EXCEPT !.text = {"SummaryComponentType"}]

Term ==
  Struct({}, {"Relation", "TermID", "TimeBase", "TimeUnit"}, {}, {"Name", "Definition", "Term"},
         {"Relation"})

Time ==
  Struct({}, {"Recurrence", "NumOfRecurrences"},
         {"TimePoint", "RelTimePoint", "RelIncrTimePoint", "Duration", "IncrDuration"}, {},
         {"Recurrence"})

Title ==
  [Struct({"Value"}, {"PreferenceValue", "Type", "Lang"}, {}, {}, {"PreferenceValue", "Type"})
     EXCEPT !.text = {"Value"}]

TitleType == [Struct({"Value"}, {"Type", "Lang"}, {}, {}, {"Type"}) EXCEPT !.text = {"Value"}]

Tool == Struct({}, {"PreferenceValue"}, {}, {"Name", "Definition"}, {"PreferenceValue"})

UnicastRepairParametersType ==
  Struct({"TransportObjectReceptionTimeout"},
         {"FixedBackOffPeriod", "RandomBackOffPeriod", "TransportObjectBaseURI"}, {},
         {"BaseURL"}, {"FixedBackOffPeriod", "RandomBackOffPeriod"})

UniqueIDType ==
  [Struct({"Value"}, {"Type", "Organization", "Authority", "Encoding"}, {}, {},
          {"Type", "Encoding"})
     EXCEPT !.text = {"Value"}]

UsageHistoryType ==
  Struct({}, {"AllowCollection", "TimeBase", "TimeUnit"}, {"UserIdentifier"},
         {"UserActionHistory"}, {"AllowCollection"})

UserActionHistoryType ==
  Struct({}, {"Protected", "TimeBase", "TimeUnit"}, {}, {"ObservationPeriod", "UserActionList"},
         {"Protected"})

UserIdentifierType == Struct({"Name"}, {"Protected"}, {}, {}, {"Protected"})

UserPreferencesType ==
  Struct({}, {"AllowAutomaticUpdate", "TimeBase", "TimeUnit"}, {"UserIdentifier"},
         {"FilteringAndSearchPreferences", "BrowsingPreferences"}, {"AllowAutomaticUpdate"})

WeightedURIType ==
  [Struct({"Value"}, {"RelativeWeight"}, {}, {}, {"RelativeWeight"})
     EXCEPT !.text = {"Value"}]

-----------------------------------------------------------------------------
Types ==
  [DeliveryInfo |-> DeliveryInfo, FileSchedule |-> FileSchedule,
   ReoccurenceStartStop |-> ReoccurenceStartStop, ScheduleDescription |-> ScheduleDescription,
   SessionScheduleOverride |-> SessionScheduleOverride,
   ConsumptionReportType |-> ConsumptionReportType,
   DASHQoEProcedureType |-> DASHQoEProcedureType, ReportProcedureType |-> ReportProcedureType,
   FecProtectionType |-> FecProtectionType, KeyManagementType |-> KeyManagementType,
   MSKType |-> MSKType, AlternativeAccessDelivery |-> AlternativeAccessDelivery,
   UserServiceDescription |-> UserServiceDescription, Registration |-> Registration,
   Schedule |-> Schedule, Esrd |-> Esrd, Esrk |-> Esrk, Loctype |-> Loctype, Msid |-> Msid,
   Prio |-> Prio, Requestmode |-> Requestmode, Respreq |-> Respreq, Starttime |-> Starttime,
   Stoptime |-> Stoptime, Subclient |-> Subclient, MlpTime |-> MlpTime, Anon10 |-> Anon10,
   BaseMulticastTransportSessionType |-> BaseMulticastTransportSessionType,
   BitRate |-> BitRate, BrowsingPreferencesType |-> BrowsingPreferencesType,
   CaptionLanguage |-> CaptionLanguage,
   ClassificationPreferencesType |-> ClassificationPreferencesType, Country |-> Country,
   CreationPreferencesType |-> CreationPreferencesType, Creator |-> Creator,
   DatePeriod |-> DatePeriod, DisseminationDate |-> DisseminationDate,
   DisseminationFormat |-> DisseminationFormat,
   DisseminationLocation |-> DisseminationLocation,
   DisseminationSource |-> DisseminationSource, Disseminator |-> Disseminator,
   ExtendedLanguageType |-> ExtendedLanguageType,
   FilteringAndSearchPreferencesType |-> FilteringAndSearchPreferencesType, Form |-> Form,
   Format |-> Format, Genre |-> Genre, InlineMediaType |-> InlineMediaType,
   Keyword |-> Keyword, Language |-> Language, LanguageFormat |-> LanguageFormat,
   Location |-> Location, MediaFormat |-> MediaFormat,
   MulticastSessionType |-> MulticastSessionType,
   MulticastTransportSessionType |-> MulticastTransportSessionType,
   ParentalGuidance |-> ParentalGuidance, ReportingLocatorType |-> ReportingLocatorType,
   Review |-> Review, SourcePreferencesType |-> SourcePreferencesType, Subject |-> Subject,
   SummaryPreferencesType |-> SummaryPreferencesType, SummaryTheme |-> SummaryTheme,
   SummaryType |-> SummaryType, Term |-> Term, Time |-> Time, Title |-> Title,
   TitleType |-> TitleType, Tool |-> Tool,
   UnicastRepairParametersType |-> UnicastRepairParametersType, UniqueIDType |-> UniqueIDType,
   UsageHistoryType |-> UsageHistoryType, UserActionHistoryType |-> UserActionHistoryType,
   UserIdentifierType |-> UserIdentifierType, UserPreferencesType |-> UserPreferencesType,
   WeightedURIType |-> WeightedURIType]

=============================================================================
