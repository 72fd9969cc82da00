------------------------------ MODULE SettingKeys ------------------------------
(***************************************************************************)
(* The tables of settings that are kept by hand in three places: the inputs *)
(* of the GraphQL mutations (src/src/app/modules/staff/setting/dto), the   *)
(* list of image keys in setting.service.ts and the seeder                 *)
(* (src/prisma/seeds/settings.seeder.ts).                                  *)
(***************************************************************************)

ApplicationSettingsInput ==
    {"settings_buy_sell_fee_percentage", "settings_min_interval_for_buy_sell_offer_in_min",
     "settings_max_interval_for_buy_sell_offer_in_min",
     "per_day_minting_limit", "minting_interval_duration_in_min"}

generalSettingsInput ==
    {"application_title", "contract_email", "contract_phone", "address",
     "copy_right_text", "wallet_address", "admin_commission"}

mailSettingsInput ==
    {"mail_driver", "mail_host", "mail_port", "mail_username", "mail_password",
     "mail_encryption", "mail_from_address", "mail_from_name"}

logoSettingsInput == {"app_logo_large", "app_logo_small", "favicon_logo"}

socialSettingsInput ==
    {"facebook_link", "twitter_link", "instagram_link", "discord_link",
     "whatsapp_link", "linkedin_link"}

UsefulLinkSettingsInput ==
    {"footer_useful_link_title_1", "footer_useful_link_url_1",
     "footer_useful_link_title_2", "footer_useful_link_url_2",
     "footer_useful_link_title_3", "footer_useful_link_url_3",
     "footer_useful_link_title_4", "footer_useful_link_url_4",
     "footer_useful_link_title_5", "footer_useful_link_url_5"}

(* The fields of HomepageSettingsInput that take an upload, and the others. *)
HomepageUploads ==
    {"banner_image", "instruction_image", "resource_image_1", "resource_image_2",
     "resource_image_3"}

HomepageSettingsInput == HomepageUploads \cup
    {"banner_title", "banner_description", "category_title", "category_description",
     "top_collection_title", "top_collection_description",
     "trending_collection_title", "trending_collection_description",
     "featured_collection_title", "featured_collection_description",
     "asset_title", "asset_description", "resource_title", "resource_description",
     "instruction_title", "instruction_description", "instruction_setup_wallet",
     "instruction_create_collection", "instruction_add_nfts", "instruction_list_for_sale",
     "resource_title_1", "resource_link_1", "resource_description_1",
     "resource_title_2", "resource_link_2", "resource_description_2",
     "resource_title_3", "resource_link_3", "resource_description_3",
     "selloffer_title", "selloffer_description",
     "video_section_title", "video_section_description", "video_url"}

(* The group each mutation of the resolver saves its input in. *)
Inputs ==
    [application_settings |-> ApplicationSettingsInput, general_settings |-> generalSettingsInput,
     email_settings |-> mailSettingsInput, logo_settings |-> logoSettingsInput,
     footer_settings |-> UsefulLinkSettingsInput, homepage_settings |-> HomepageSettingsInput,
     social_settings |-> socialSettingsInput]

Keys == UNION {Inputs[g] : g \in DOMAIN Inputs}

imageSlugList ==
    {"banner_image", "instruction_image", "resource_image_1", "resource_image_2",
     "resource_image_3", "app_logo_large", "app_logo_small", "favicon_logo"}

--------------------------------------------------------------------------------
(* What settings.seeder.ts creates, by group; the footer has no seeds.      *)
SeededHomepage ==
    HomepageSettingsInput \
        {"resource_description_1", "resource_description_2", "resource_description_3"}

SeededOthers ==
    [application_settings |-> ApplicationSettingsInput, general_settings |-> generalSettingsInput,
     email_settings |-> mailSettingsInput, logo_settings |-> logoSettingsInput,
     social_settings |-> socialSettingsInput]

(* The seeds with SETTINGS_VALUE_TYPE_MEDIA_URL. *)
SeededMedia ==
    {"app_logo_large", "app_logo_small", "favicon_logo", "banner_image",
     "resource_image_1", "resource_image_2", "resource_image_3", "instruction_image"}
================================================================================
